---- MODULE Spec2Model ----
(***************************************************************************)
(* Model of the muxt desktop shell: the host process (src/main/main.ts),   *)
(* the settings store (src/main/settings.ts), the per-pane preload script  *)
(* (src/preload/preload.ts) and the renderer's resize overlay              *)
(* (src/renderer/components/ResizeOverlay.tsx, App).                        *)
(*                                                                         *)
(* Percentages are held as integers in units of 1/Unit percent so that the *)
(* equal splits 100*i/k are exact for every visible count k <= N.          *)
(***************************************************************************)
EXTENDS Integers, Sequences, FiniteSets, TLC

\* ------------------------------------------------------------------------
\* Bounds
\* ------------------------------------------------------------------------

\* Number of content sources (PLATFORMS.length, PLATFORM_COUNT).
N == 3

\* Largest scroll position a pane reports, in multiples of ScrollStep.
MaxScroll == 2

\* Longest FIFO of messages in flight that a user action may add to.
MaxInFlight == 2

\* Most views whose webContents are destroyed during a session.
MaxDestroyed == 1

\* Messages in flight between renderer and host below which the user
\* acts on the renderer.
MaxPending == 1

\* Number of panes (0..NumScrollers-1) whose content the user scrolls.
NumScrollers == 1

\* ------------------------------------------------------------------------
\* Basic values
\* ------------------------------------------------------------------------

Panes == 0..(N - 1)

\* null (focusedViewIndex, isDragging) and the -1 of Array.findIndex.
Null == 0 - 1

RECURSIVE Gcd(_, _)
Gcd(a, b) == IF b = 0 THEN a ELSE Gcd(b, a % b)

RECURSIVE LcmUpTo(_)
LcmUpTo(n) == IF n <= 1 THEN 1 ELSE (LcmUpTo(n - 1) * n) \div Gcd(LcmUpTo(n - 1), n)

\* One percent, in model units.
Unit == LcmUpTo(N)

Pct(p) == p * Unit

\* IEEE NaN and the undefined read from a missing array slot, as they
\* appear inside a splits array.
NaN == 0 - (1000 * Unit)

Undefined == 0 - (2000 * Unit)

IsNumber(x) == x # NaN /\ x # Undefined

SeqToSet(s) == {s[i] : i \in 1..Len(s)}

Count(vis) == Cardinality({i \in 1..Len(vis) : vis[i]})

\* ------------------------------------------------------------------------
\* JavaScript values as they appear in the parsed settings document
\* ------------------------------------------------------------------------

JUndef == [t |-> "undefined"]

JOther == [t |-> "string"]

JBool(b) == [t |-> "boolean", b |-> b]

JNum(n) == [t |-> "number", n |-> n]

JArr(a) == [t |-> "array", a |-> a]

NumArr(s) == JArr([i \in 1..Len(s) |-> JNum(s[i])])

BoolArr(s) == JArr([i \in 1..Len(s) |-> JBool(s[i])])

\* Array.prototype.sort((a, b) => a - b) on an array of numbers.
RECURSIVE Insert(_, _)
Insert(x, s) ==
    IF s = <<>> THEN <<x>>
    ELSE IF x <= Head(s) THEN <<x>> \o s
    ELSE <<Head(s)>> \o Insert(x, Tail(s))

RECURSIVE SortNums(_)
SortNums(s) == IF s = <<>> THEN <<>> ELSE Insert(Head(s), SortNums(Tail(s)))

\* ------------------------------------------------------------------------
\* Settings store
\* ------------------------------------------------------------------------

PLATFORM_COUNT == N

DefaultOrder == [i \in 1..PLATFORM_COUNT |-> i - 1]

AllVisible == [i \in 1..PLATFORM_COUNT |-> TRUE]

\* DEFAULT_SETTINGS; its platformVisibility array is an object that
\* loadSettings hands out by reference, so its content is a parameter.
DEFAULT_SETTINGS(defVis) ==
    [platformOrder |-> DefaultOrder,
     platformVisibility |-> defVis,
     scrollSyncEnabled |-> TRUE,
     focusModeEnabled |-> FALSE,
     visIsDefaultObject |-> TRUE]

\* isValidPlatformOrder on an array of numbers: sorted copy equals 0..N-1.
SortedIsIdentity(nums) ==
    \A i \in 1..PLATFORM_COUNT : SortNums(nums)[i] = i - 1

isValidPlatformOrder(order) ==
    /\ order.t = "array"
    /\ Len(order.a) = PLATFORM_COUNT
    /\ \A i \in 1..Len(order.a) : order.a[i].t = "number"
    /\ SortedIsIdentity([i \in 1..Len(order.a) |-> order.a[i].n])

\* isValidVisibility without the "at least one true" test.
isValidVisibility_NoSome(visibility) ==
    /\ visibility.t = "array"
    /\ Len(visibility.a) = PLATFORM_COUNT
    /\ \A i \in 1..Len(visibility.a) : visibility.a[i].t = "boolean"

isValidVisibility(visibility) ==
    /\ visibility.t = "array"
    /\ Len(visibility.a) = PLATFORM_COUNT
    /\ \A i \in 1..Len(visibility.a) : visibility.a[i].t = "boolean"
    /\ \E i \in 1..Len(visibility.a) : visibility.a[i].b = TRUE

NumsOf(arr) == [i \in 1..Len(arr.a) |-> arr.a[i].n]

BoolsOf(arr) == [i \in 1..Len(arr.a) |-> arr.a[i].b]

\* A settings file: absent, unparsable, or a parsed document.
NoFile == [exists |-> FALSE, parses |-> FALSE, doc |-> <<>>]

BadFile == [exists |-> TRUE, parses |-> FALSE, doc |-> <<>>]

DocFile(o, v, s, f, g) ==
    [exists |-> TRUE, parses |-> TRUE,
     doc |-> [platformOrder |-> o, platformVisibility |-> v,
              scrollSyncEnabled |-> s, focusModeEnabled |-> f,
              grayscaleModeEnabled |-> g]]

\* loadSettings(): every field is validated on its own.  The result
\* carries no grayscaleModeEnabled field.
loadSettings(file, defVis) ==
    IF ~file.exists \/ ~file.parses THEN DEFAULT_SETTINGS(defVis)
    ELSE [platformOrder |->
              IF isValidPlatformOrder(file.doc.platformOrder)
              THEN NumsOf(file.doc.platformOrder) ELSE DefaultOrder,
          platformVisibility |->
              IF isValidVisibility(file.doc.platformVisibility)
              THEN BoolsOf(file.doc.platformVisibility) ELSE defVis,
          scrollSyncEnabled |->
              IF file.doc.scrollSyncEnabled.t = "boolean"
              THEN file.doc.scrollSyncEnabled.b ELSE TRUE,
          focusModeEnabled |->
              IF file.doc.focusModeEnabled.t = "boolean"
              THEN file.doc.focusModeEnabled.b ELSE FALSE,
          visIsDefaultObject |-> ~isValidVisibility(file.doc.platformVisibility)]

\* No settings object (nothing saved or loaded yet).
NoSettings == [none |-> TRUE]

\* The ?? of saveSettings: the given field if the partial object has it.
Merge(settings, current, field) ==
    IF field \in DOMAIN settings THEN settings[field] ELSE current[field]

\* saveSettings(partial): load, merge, validate, write the whole document.
\* Only the four fields of AppSettings are written.
saveSettings(file, defVis, settings) ==
    LET current == loadSettings(file, defVis)
        o == NumArr(Merge(settings, current, "platformOrder"))
        v == BoolArr(Merge(settings, current, "platformVisibility"))
    IN DocFile(IF isValidPlatformOrder(o) THEN o ELSE NumArr(DefaultOrder),
               IF isValidVisibility(v) THEN v ELSE BoolArr(defVis),
               JBool(Merge(settings, current, "scrollSyncEnabled")),
               JBool(Merge(settings, current, "focusModeEnabled")),
               JUndef)

\* ------------------------------------------------------------------------
\* Layout functions of the host
\* ------------------------------------------------------------------------

\* calculateEqualSplits: (i / visibleCount) * 100 for i in [1, visibleCount).
calculateEqualSplits(visibleCount) ==
    IF visibleCount <= 1 THEN <<>>
    ELSE [i \in 1..(visibleCount - 1) |-> (i * Pct(100)) \div visibleCount]

\* getVisiblePlatformIndices: platformOrder.filter(idx => platformVisibility[idx]).
\* An index outside the array reads undefined, which is falsy.
getVisiblePlatformIndices(order, vis) ==
    SelectSeq(order, LAMBDA idx : idx \in Panes /\ vis[idx + 1])


\* recalculateSplits: equal splits for the number of true visibility flags.
recalculateSplits(vis) == calculateEqualSplits(Count(vis))

headerHeight == 30

gapSize == 4

MinRenderedWidth == 50

Rect(x, y, w, h) == [x |-> x, y |-> y, width |-> w, height |-> h]

HiddenRect == Rect(0, 0, 0, 0)

\* splitPixels = [0, ...currentSplits.map(s => (s / 100) * bounds.width),
\* bounds.width], each kept as a numerator over Pct(100) so that the
\* Math.floor of updateLayout is exact.
splitPixels(splits, width) ==
    <<0>> \o [i \in 1..Len(splits) |->
                 IF IsNumber(splits[i]) THEN splits[i] * width ELSE NaN]
          \o <<width * Pct(100)>>

PixelAt(px, i) == IF i \in 1..Len(px) THEN px[i] ELSE Undefined

MaxOf(S) == CHOOSE m \in S : \A k \in S : k <= m

PositionRect_GapCountedOnce(px, pos, count, bounds) ==
    LET startX == PixelAt(px, pos)
        endX == PixelAt(px, pos + 1)
        leftGap == IF pos = 1 THEN 0 ELSE gapSize
        rightGap == IF pos = count THEN 0 ELSE gapSize
        h == bounds.height - headerHeight
        w == ((endX - startX) \div Pct(100)) - rightGap
    IN Rect((startX \div Pct(100)) + leftGap, headerHeight,
            IF w > MinRenderedWidth THEN w ELSE MinRenderedWidth, h)

\* The rectangle set for the pane at display position pos (1-based) of
\* count visible panes.  A NaN or undefined boundary gives NaN fields.
PositionRect(px, pos, count, bounds) ==
    LET startX == PixelAt(px, pos)
        endX == PixelAt(px, pos + 1)
        leftGap == IF pos = 1 THEN 0 ELSE gapSize
        rightGap == IF pos = count THEN 0 ELSE gapSize
        h == bounds.height - headerHeight
    IN IF ~IsNumber(startX) THEN Rect(NaN, headerHeight, NaN, h)
       ELSE IF ~IsNumber(endX)
            THEN Rect((startX \div Pct(100)) + leftGap, headerHeight, NaN, h)
       ELSE LET w == ((endX - startX) \div Pct(100)) - rightGap - leftGap
            IN Rect((startX \div Pct(100)) + leftGap, headerHeight,
                    IF w > MinRenderedWidth THEN w ELSE MinRenderedWidth, h)

\* updateLayout(): hide every view, then position the visible ones in
\* display order; a pane listed twice keeps its last rectangle.
updateLayout(order, vis, splits, bounds) ==
    LET visibleIndices == getVisiblePlatformIndices(order, vis)
        px == splitPixels(splits, bounds.width)
        positions(v) == {p \in 1..Len(visibleIndices) : visibleIndices[p] = v}
    IN [v \in Panes |->
          IF positions(v) = {} THEN HiddenRect
          ELSE PositionRect(px, MaxOf(positions(v)), Len(visibleIndices), bounds)]

\* ------------------------------------------------------------------------
\* State
\* ------------------------------------------------------------------------

VARIABLES
    \* host (main.ts)
    platformOrder, platformVisibility, currentSplits, viewsOnPost,
    scrollSyncEnabled, focusModeEnabled, grayscaleModeEnabled,
    focusedViewIndex,
    \* settings store (settings.ts): the file, the content of
    \* DEFAULT_SETTINGS.platformVisibility, and whether the host's
    \* platformVisibility is that very array
    settingsFile, defaultVisibility, visIsDefaultObject,
    \* embedding host: destroyed webContents, rectangles, window size
    destroyed, viewBounds, contentBounds,
    \* the event handled by the last step and the messages it sent
    lastEvent, out,
    \* panes (preload.ts)
    paneOpacity, inbox,
    scrollY, lastScrollY, scrollDebounceTimer, timerFromDetail,
    paneScrollSyncEnabled, isProgrammaticScroll, toHost,
    \* pane documents: whether the load has finished, and the preload
    \* script's focusModeEnabled and viewIndex
    paneLoaded, paneFocusModeEnabled, paneViewIndex,
    \* settings store: the object last given to saveSettings and the object
    \* last returned by loadSettings
    savedSettings, loadedSettings,
    \* sessions: how many times the application was quit and started again,
    \* and the host's currentSplits when it was last quit
    restarts, splitsAtClose,
    \* the user's last input to the renderer: "none", "drag" or "toggle"
    lastInput,
    \* pane documents: the URL each pane shows and the URL of a navigation
    \* that passed will-navigate and has not committed yet
    paneUrl, navigating,
    \* time, in ticks: the age of each pane's pending scrollDebounceTimer and
    \* the time since the pane's scroll observer last accepted an event; the
    \* number of events it accepted since the pane last sent a SCROLL_UPDATE
    timerAge, quiet, burst,
    \* whether the scroll event of a programmatic scrollTo waits to be
    \* dispatched; the y of the last SCROLL_COMMAND the pane received, or
    \* Scrolled when the user has scrolled the pane since it was last idle
    scrollEventPending, lastCommand,
    \* panes (preload.ts), receiving side: the handle and target recorded by
    \* smoothScrollTo, the y of the pending scrollCommandDebounceTimer, the
    \* animate callbacks requested and not yet run or cancelled, the
    \* pending 10ms timeouts that clear isProgrammaticScroll, and the age of
    \* the pending scrollCommandDebounceTimer in ticks
    smoothScrollAnimationId, smoothScrollTarget, scrollCommandDebounceTimer,
    frames, cooldowns, commandTimerAge,
    \* feedState.ts: the last call of one of its pure functions, with its
    \* arguments and its result
    pureCall,
    \* renderer (App, ResizeOverlay)
    winLoaded, mounted, platforms, order, visibility, splits, isDragging,
    dragStartX, hasMoved, toRenderer, fromRenderer

hostVars ==
    <<platformOrder, platformVisibility, currentSplits, viewsOnPost,
      scrollSyncEnabled, focusModeEnabled, grayscaleModeEnabled,
      focusedViewIndex, settingsFile, defaultVisibility, visIsDefaultObject,
      destroyed, viewBounds, contentBounds>>

obsVars == <<lastEvent, out>>

focusPaneVars == <<paneOpacity, inbox>>

scrollPaneVars ==
    <<scrollY, lastScrollY, scrollDebounceTimer, timerFromDetail,
      paneScrollSyncEnabled, isProgrammaticScroll, toHost>>

rendererVars ==
    <<winLoaded, mounted, platforms, order, visibility, splits, isDragging,
      dragStartX, hasMoved, toRenderer, fromRenderer>>

pageVars == <<paneLoaded, paneFocusModeEnabled, paneViewIndex>>

storeVars == <<savedSettings, loadedSettings>>

\* State that only some specifications use.
sessionVars == <<restarts, splitsAtClose>>

libVars == <<pureCall>>

navVars == <<paneUrl, navigating>>

observerVars == <<timerAge, quiet, burst, scrollEventPending, lastCommand>>

animVars ==
    <<smoothScrollAnimationId, smoothScrollTarget, scrollCommandDebounceTimer,
      frames, cooldowns, commandTimerAge>>

quietVars == <<storeVars, sessionVars, libVars, navVars, animVars>>

extraVars == <<quietVars, lastInput, observerVars>>

vars ==
    <<hostVars, obsVars, focusPaneVars, scrollPaneVars, pageVars, rendererVars,
      extraVars>>

\* The main window's webContents, as a message target or sender.
Win == N

PaneSeq == [i \in 1..N |-> i - 1]

\* views.forEach(view => { if (!view.webContents.isDestroyed()) ... })
LiveViews == SelectSeq(PaneSeq, LAMBDA p : p \notin destroyed)

Event(type) == [type |-> type]


\* ------------------------------------------------------------------------
\* Host handlers (main.ts).  Each sets lastEvent to the event it handled
\* and out to the messages it sent, in sending order.
\* ------------------------------------------------------------------------

OpacityFull == 100

OpacityDim == 12

\* views.forEach(view => view.webContents.send(...)): msg maps a view to
\* the message sent to it.
SendEach(targets, msg) == [i \in 1..Len(targets) |-> msg[targets[i]]]

\* toggleVisibility without the "last visible feed" return.
CanToggle_NoFloor(vis, index) == ~(index < 0 \/ index >= N)

\* toggleVisibility's two early returns.
CanToggle(vis, index) ==
    /\ ~(index < 0 \/ index >= N)
    /\ ~(vis[index + 1] /\ Count(vis) <= 1)

toggleVisibility(index) ==
    /\ lastEvent' = [type |-> "TOGGLE_VISIBILITY", index |-> index]
    /\ IF CanToggle(platformVisibility, index)
       THEN /\ platformVisibility' =
                  [platformVisibility EXCEPT ![index + 1] = ~platformVisibility[index + 1]]
            /\ defaultVisibility' =
                  IF visIsDefaultObject THEN platformVisibility' ELSE defaultVisibility
            /\ settingsFile' = saveSettings(settingsFile, defaultVisibility',
                                            [platformVisibility |-> platformVisibility'])
            /\ currentSplits' = recalculateSplits(platformVisibility')
            /\ viewBounds' = updateLayout(platformOrder, platformVisibility',
                                          currentSplits', contentBounds)
            /\ out' = <<[type |-> "VISIBILITY_CHANGED", to |-> Win,
                         visibility |-> platformVisibility']>>
            /\ UNCHANGED <<platformOrder, viewsOnPost, scrollSyncEnabled,
                           focusModeEnabled, grayscaleModeEnabled, focusedViewIndex,
                           visIsDefaultObject, destroyed, contentBounds>>
       ELSE /\ out' = <<>>
            /\ UNCHANGED hostVars

\* reorderPlatforms' early return.
CanReorder(newOrder) == ~(Len(newOrder) # N)

reorderPlatforms(newOrder) ==
    /\ lastEvent' = [type |-> "REORDER_PLATFORMS", order |-> newOrder]
    /\ IF CanReorder(newOrder)
       THEN /\ platformOrder' = newOrder
            /\ settingsFile' = saveSettings(settingsFile, defaultVisibility,
                                            [platformOrder |-> newOrder])
            /\ viewBounds' = updateLayout(newOrder, platformVisibility,
                                          currentSplits, contentBounds)
            /\ out' = <<[type |-> "PLATFORM_ORDER_CHANGED", to |-> Win,
                         order |-> newOrder]>>
            /\ UNCHANGED <<platformVisibility, currentSplits, viewsOnPost,
                           scrollSyncEnabled, focusModeEnabled, grayscaleModeEnabled,
                           focusedViewIndex, defaultVisibility, visIsDefaultObject,
                           destroyed, contentBounds>>
       ELSE /\ out' = <<>>
            /\ UNCHANGED hostVars

UPDATE_LAYOUT_Recalculates(newSplits) ==
    /\ lastEvent' = [type |-> "UPDATE_LAYOUT", splits |-> newSplits]
    /\ currentSplits' = recalculateSplits(platformVisibility)
    /\ viewBounds' = updateLayout(platformOrder, platformVisibility, currentSplits',
                                  contentBounds)
    /\ out' = <<>>
    /\ UNCHANGED <<platformOrder, platformVisibility, viewsOnPost, scrollSyncEnabled,
                   focusModeEnabled, grayscaleModeEnabled, focusedViewIndex,
                   settingsFile, defaultVisibility, visIsDefaultObject, destroyed,
                   contentBounds>>

\* ipcMain.on('UPDATE_LAYOUT')
UPDATE_LAYOUT(newSplits) ==
    /\ lastEvent' = [type |-> "UPDATE_LAYOUT", splits |-> newSplits]
    /\ currentSplits' = newSplits
    /\ viewBounds' = updateLayout(platformOrder, platformVisibility, newSplits,
                                  contentBounds)
    /\ out' = <<>>
    /\ UNCHANGED <<platformOrder, platformVisibility, viewsOnPost, scrollSyncEnabled,
                   focusModeEnabled, grayscaleModeEnabled, focusedViewIndex,
                   settingsFile, defaultVisibility, visIsDefaultObject, destroyed,
                   contentBounds>>

\* ipcMain.on('RESET_LAYOUT')
RESET_LAYOUT ==
    /\ lastEvent' = Event("RESET_LAYOUT")
    /\ currentSplits' = recalculateSplits(platformVisibility)
    /\ viewBounds' = updateLayout(platformOrder, platformVisibility, currentSplits',
                                  contentBounds)
    /\ out' = <<>>
    /\ UNCHANGED <<platformOrder, platformVisibility, viewsOnPost, scrollSyncEnabled,
                   focusModeEnabled, grayscaleModeEnabled, focusedViewIndex,
                   settingsFile, defaultVisibility, visIsDefaultObject, destroyed,
                   contentBounds>>

\* win.on('resize')
WinResize(bounds) ==
    /\ lastEvent' = [type |-> "resize", bounds |-> bounds]
    /\ contentBounds' = bounds
    /\ viewBounds' = updateLayout(platformOrder, platformVisibility, currentSplits,
                                  bounds)
    /\ out' = <<>>
    /\ UNCHANGED <<platformOrder, platformVisibility, currentSplits, viewsOnPost,
                   scrollSyncEnabled, focusModeEnabled, grayscaleModeEnabled,
                   focusedViewIndex, settingsFile, defaultVisibility,
                   visIsDefaultObject, destroyed>>

EnabledMsg(type, to, enabled) == [type |-> type, to |-> to, enabled |-> enabled]

OpacityMsg(to, opacity) == [type |-> "SET_VIEW_OPACITY", to |-> to, opacity |-> opacity]

\* ipcMain.on('TOGGLE_SCROLL_SYNC')
TOGGLE_SCROLL_SYNC ==
    /\ lastEvent' = [type |-> "TOGGLE_SCROLL_SYNC", was |-> scrollSyncEnabled]
    /\ scrollSyncEnabled' = ~scrollSyncEnabled
    /\ settingsFile' = saveSettings(settingsFile, defaultVisibility,
                                    [scrollSyncEnabled |-> scrollSyncEnabled'])
    /\ out' = <<EnabledMsg("SCROLL_SYNC_CHANGED", Win, scrollSyncEnabled')>>
              \o SendEach(LiveViews,
                   [p \in Panes |-> EnabledMsg("SCROLL_SYNC_CHANGED", p, scrollSyncEnabled')])
    /\ UNCHANGED <<platformOrder, platformVisibility, currentSplits, viewsOnPost,
                   focusModeEnabled, grayscaleModeEnabled, focusedViewIndex,
                   defaultVisibility, visIsDefaultObject, destroyed, viewBounds,
                   contentBounds>>

\* ipcMain.on('TOGGLE_FOCUS_MODE')
TOGGLE_FOCUS_MODE ==
    /\ lastEvent' = [type |-> "TOGGLE_FOCUS_MODE", was |-> focusModeEnabled]
    /\ focusModeEnabled' = ~focusModeEnabled
    /\ settingsFile' = saveSettings(settingsFile, defaultVisibility,
                                    [focusModeEnabled |-> focusModeEnabled'])
    /\ focusedViewIndex' = IF ~focusModeEnabled' THEN Null ELSE focusedViewIndex
    /\ out' = <<EnabledMsg("FOCUS_MODE_CHANGED", Win, focusModeEnabled')>>
              \o SendEach(LiveViews,
                   [p \in Panes |-> EnabledMsg("FOCUS_MODE_CHANGED", p, focusModeEnabled')])
              \o (IF ~focusModeEnabled'
                  THEN SendEach(LiveViews, [p \in Panes |-> OpacityMsg(p, OpacityFull)])
                  ELSE <<>>)
    /\ UNCHANGED <<platformOrder, platformVisibility, currentSplits, viewsOnPost,
                   scrollSyncEnabled, grayscaleModeEnabled, defaultVisibility,
                   visIsDefaultObject, destroyed, viewBounds, contentBounds>>

\* !x for the value held in grayscaleModeEnabled (undefined is falsy).
JNot(v) == JBool(~(v.t = "boolean" /\ v.b))

GrayMsg(to, gray) == [type |-> "GRAYSCALE_MODE_CHANGED", to |-> to, gray |-> gray]

\* ipcMain.on('TOGGLE_GRAYSCALE_MODE'); saveSettings merges none of the
\* fields of this partial object.
TOGGLE_GRAYSCALE_MODE ==
    /\ lastEvent' = [type |-> "TOGGLE_GRAYSCALE_MODE", was |-> grayscaleModeEnabled]
    /\ grayscaleModeEnabled' = JNot(grayscaleModeEnabled)
    /\ settingsFile' = saveSettings(settingsFile, defaultVisibility,
                                    [grayscaleModeEnabled |-> grayscaleModeEnabled'])
    /\ out' = <<GrayMsg(Win, grayscaleModeEnabled')>>
              \o SendEach(LiveViews, [p \in Panes |-> GrayMsg(p, grayscaleModeEnabled')])
    /\ UNCHANGED <<platformOrder, platformVisibility, currentSplits, viewsOnPost,
                   scrollSyncEnabled, focusModeEnabled, focusedViewIndex,
                   defaultVisibility, visIsDefaultObject, destroyed, viewBounds,
                   contentBounds>>

\* The opacity FOCUS_VIEW gives to the view at index.
ViewOpacity(index, viewIndex) == IF index = viewIndex THEN OpacityFull ELSE OpacityDim

\* FOCUS_VIEW without the focus-mode return.
FocusChanges_NoModeCheck(enabled, focused, viewIndex) == ~(focused = viewIndex)

\* FOCUS_VIEW's two early returns.
FocusChanges(enabled, focused, viewIndex) ==
    /\ ~(~enabled)
    /\ ~(focused = viewIndex)

\* ipcMain.on('FOCUS_VIEW')
FOCUS_VIEW(viewIndex) ==
    /\ lastEvent' = [type |-> "FOCUS_VIEW", viewIndex |-> viewIndex]
    /\ IF FocusChanges(focusModeEnabled, focusedViewIndex, viewIndex)
       THEN /\ focusedViewIndex' = viewIndex
            /\ out' = SendEach(LiveViews,
                         [p \in Panes |-> OpacityMsg(p, ViewOpacity(p, viewIndex))])
       ELSE /\ out' = <<>>
            /\ UNCHANGED focusedViewIndex
    /\ UNCHANGED <<platformOrder, platformVisibility, currentSplits, viewsOnPost,
                   scrollSyncEnabled, focusModeEnabled, grayscaleModeEnabled,
                   settingsFile, defaultVisibility, visIsDefaultObject, destroyed,
                   viewBounds, contentBounds>>

\* The blur handler testing for no focused view instead of a focused one.
BlurResets_Inverted(enabled, focused) == enabled /\ focused = Null

\* The condition of the blur handler.
BlurResets(enabled, focused) == enabled /\ focused # Null

\* win.on('blur')
WinBlur ==
    /\ lastEvent' = Event("blur")
    /\ IF BlurResets(focusModeEnabled, focusedViewIndex)
       THEN /\ focusedViewIndex' = Null
            /\ out' = SendEach(LiveViews, [p \in Panes |-> OpacityMsg(p, OpacityFull)])
       ELSE /\ out' = <<>>
            /\ UNCHANGED focusedViewIndex
    /\ UNCHANGED <<platformOrder, platformVisibility, currentSplits, viewsOnPost,
                   scrollSyncEnabled, focusModeEnabled, grayscaleModeEnabled,
                   settingsFile, defaultVisibility, visIsDefaultObject, destroyed,
                   viewBounds, contentBounds>>

\* ipcMain.on('RELOAD_ALL')
RELOAD_ALL ==
    /\ lastEvent' = Event("RELOAD_ALL")
    /\ out' = SendEach(LiveViews, [p \in Panes |-> [type |-> "reload", to |-> p]])
    /\ UNCHANGED hostVars

\* view.webContents.on('did-finish-load')
DidFinishLoad(p) ==
    /\ lastEvent' = [type |-> "did-finish-load", view |-> p]
    /\ out' = <<[type |-> "SET_VIEW_INDEX", to |-> p, index |-> p],
                GrayMsg(p, grayscaleModeEnabled)>>
    /\ UNCHANGED hostVars

updateScrollSyncState_ClearAll(onPost, viewIndex, isOnFeed) ==
    IF isOnFeed THEN {} ELSE onPost \cup {viewIndex}

\* updateScrollSyncState(viewIndex, isOnFeed)
updateScrollSyncState(onPost, viewIndex, isOnFeed) ==
    IF isOnFeed THEN onPost \ {viewIndex} ELSE onPost \cup {viewIndex}

\* view.webContents.on('did-navigate') and on('did-navigate-in-page'),
\* with the result of isOnFeedPage(url, platform.name).
DidNavigate(p, inPage, onFeed) ==
    /\ lastEvent' = [type |-> "did-navigate", view |-> p, inPage |-> inPage,
                     onFeed |-> onFeed]
    /\ viewsOnPost' = updateScrollSyncState(viewsOnPost, p, onFeed)
    /\ out' = <<>>
    /\ UNCHANGED <<platformOrder, platformVisibility, currentSplits,
                   scrollSyncEnabled, focusModeEnabled, grayscaleModeEnabled,
                   focusedViewIndex, settingsFile, defaultVisibility,
                   visIsDefaultObject, destroyed, viewBounds, contentBounds>>

\* views.findIndex(v => !v.webContents.isDestroyed() &&
\*                      v.webContents.id === event.sender.id)
SenderIndex(sender) ==
    IF sender \in Panes /\ sender \notin destroyed THEN sender ELSE Null

\* SCROLL_UPDATE without the "sender is on a post page" return.
ShouldDispatch_NoPostCheck(enabled, onPost, senderIndex) == ~(~enabled)

\* SCROLL_UPDATE's two early returns.
ShouldDispatch(enabled, onPost, senderIndex) ==
    /\ ~(~enabled)
    /\ ~(senderIndex # Null /\ senderIndex \in onPost)

\* The broadcast filter without the comparison with event.sender.id.
IsScrollReceiver_WithSender(p, sender, onPost) == ~(p \in onPost)

\* The filter of the SCROLL_UPDATE broadcast loop.
IsScrollReceiver(p, sender, onPost) == p # sender /\ ~(p \in onPost)

ScrollCommand(to, y, fromDetail) ==
    [type |-> "SCROLL_COMMAND", to |-> to, y |-> y, fromDetail |-> fromDetail]

\* ipcMain.on('SCROLL_UPDATE'); fromDetail is history carried with the
\* message: the scroll that armed the sender's timer was made while the
\* host classified the sender as detail.
SCROLL_UPDATE(sender, y, fromDetail) ==
    /\ lastEvent' = [type |-> "SCROLL_UPDATE", sender |-> sender, y |-> y,
                     fromDetail |-> fromDetail]
    /\ out' = IF ShouldDispatch(scrollSyncEnabled, viewsOnPost, SenderIndex(sender))
              THEN SendEach(SelectSeq(LiveViews,
                                LAMBDA p : IsScrollReceiver(p, sender, viewsOnPost)),
                            [p \in Panes |-> ScrollCommand(p, y, fromDetail)])
              ELSE <<>>
    /\ UNCHANGED hostVars

\* ipcMain.handle('GET_PLATFORMS'); the names are the platform indices.
GET_PLATFORMS ==
    /\ lastEvent' = Event("GET_PLATFORMS")
    /\ out' = <<[type |-> "GET_PLATFORMS:reply", to |-> Win, platforms |-> PaneSeq,
                 order |-> platformOrder, visibility |-> platformVisibility]>>
    /\ UNCHANGED hostVars

\* win.webContents.on('did-finish-load')
WinDidFinishLoad ==
    /\ lastEvent' = Event("win:did-finish-load")
    /\ out' = <<[type |-> "PLATFORM_ORDER_CHANGED", to |-> Win, order |-> platformOrder],
                [type |-> "VISIBILITY_CHANGED", to |-> Win,
                 visibility |-> platformVisibility]>>
    /\ UNCHANGED hostVars

\* A view's webContents is destroyed (teardown).
DestroyView(p) ==
    /\ p \notin destroyed
    /\ lastEvent' = [type |-> "destroyed", view |-> p]
    /\ destroyed' = destroyed \cup {p}
    /\ out' = <<>>
    /\ UNCHANGED <<platformOrder, platformVisibility, currentSplits, viewsOnPost,
                   scrollSyncEnabled, focusModeEnabled, grayscaleModeEnabled,
                   focusedViewIndex, settingsFile, defaultVisibility,
                   visIsDefaultObject, viewBounds, contentBounds>>


\* ------------------------------------------------------------------------
\* Startup
\* ------------------------------------------------------------------------

ReverseOrder == [i \in 1..N |-> N - i]

\* A repeated index, an index outside [0,N), and a short array.
RepeatedOrder == [DefaultOrder EXCEPT ![1] = DefaultOrder[N]]

OutOfRangeOrder == [DefaultOrder EXCEPT ![N] = N]

ShortOrder == SubSeq(DefaultOrder, 1, N - 1)

FirstHidden == [AllVisible EXCEPT ![1] = FALSE]

OnlyLastVisible == [i \in 1..N |-> i = N]

NoneVisible == [i \in 1..N |-> FALSE]

StoredOrders ==
    {NumArr(DefaultOrder), NumArr(ReverseOrder), NumArr(RepeatedOrder),
     NumArr(ShortOrder), JUndef}

StoredVisibilities ==
    {BoolArr(AllVisible), BoolArr(OnlyLastVisible), BoolArr(NoneVisible),
     JArr([i \in 1..N |-> IF i = 1 THEN JOther ELSE JBool(TRUE)]),
     BoolArr(SubSeq(AllVisible, 1, N - 1)), JUndef}

StoredFlags == {JBool(TRUE), JBool(FALSE), JOther}

\* The settings documents a session may start from.
StoredFiles ==
    {NoFile, BadFile}
    \cup {DocFile(o, v, s, f, JUndef) :
            o \in StoredOrders, v \in StoredVisibilities,
            s \in StoredFlags, f \in StoredFlags}

\* Documents with valid arrays only (the flags vary).
PlainFiles ==
    {DocFile(NumArr(DefaultOrder), BoolArr(AllVisible), s, f, JUndef) :
        s \in {JBool(TRUE), JBool(FALSE)}, f \in {JBool(TRUE), JBool(FALSE)}}

WideBounds == [width |-> 1200, height |-> 800]

NarrowBounds == [width |-> 200, height |-> 800]

WindowSizes == {WideBounds, NarrowBounds}

\* app.whenReady: loadSettings, recalculateSplits, createWindow (which
\* creates the N views and calls updateLayout).
HostStartup(file) ==
    /\ settingsFile = file
    /\ defaultVisibility = AllVisible
    /\ visIsDefaultObject = loadSettings(file, AllVisible).visIsDefaultObject
    /\ platformOrder = loadSettings(file, AllVisible).platformOrder
    /\ platformVisibility = loadSettings(file, AllVisible).platformVisibility
    /\ scrollSyncEnabled = loadSettings(file, AllVisible).scrollSyncEnabled
    /\ focusModeEnabled = loadSettings(file, AllVisible).focusModeEnabled
    /\ grayscaleModeEnabled = JUndef
    /\ currentSplits = recalculateSplits(platformVisibility)
    /\ focusedViewIndex = Null
    /\ viewsOnPost = {}
    /\ destroyed = {}
    /\ contentBounds = WideBounds
    /\ viewBounds = updateLayout(platformOrder, platformVisibility, currentSplits,
                                 contentBounds)
    /\ lastEvent = Event("startup")
    /\ out = <<>>

\* ------------------------------------------------------------------------
\* URLs and origins
\* ------------------------------------------------------------------------

\* A URL string, by its parts.  Hosts are numbered: pane p's platform is
\* served by host p, and host N is some other site.
Url(scheme, host, path) == [scheme |-> scheme, host |-> host, path |-> path]

NoUrl == Url("", Null, <<>>)

\* new URL(url) throws for a string without a scheme.
Parses(url) == url.scheme # ""

\* new URL(url).origin: scheme and host for http(s), "null" otherwise.
URLOrigin(url) ==
    IF url.scheme \in {"http", "https"}
    THEN [scheme |-> url.scheme, host |-> url.host]
    ELSE [scheme |-> "null", host |-> Null]

\* A path is the sequence of its pieces: "/" and words chosen so that no
\* word begins another, which makes the prefix and the part-of relations of
\* the strings those of the sequences.
RootPath == <<"/">>

FeedPath == <<"/", "feed", "/">>

PostPath == <<"/", "post", "/", "1">>

OutPath == <<"/", "out">>

\* The platform names the switch of isOnFeedPage knows: X, LinkedIn,
\* Bluesky, Threads and Reddit are the names 0 to 4 (the model runs the
\* first N of them as panes).
NumPlatforms == 5

\* PLATFORMS[p].url
PlatformUrl(p) == Url("https", p, IF p = 1 THEN FeedPath ELSE RootPath)

\* const platformOrigin = new URL(platform.url).origin
platformOrigin(p) == URLOrigin(PlatformUrl(p))

\* path.startsWith(prefix)
StartsWith(path, prefix) ==
    /\ Len(prefix) <= Len(path)
    /\ SubSeq(path, 1, Len(prefix)) = prefix

\* path.includes(part)
Includes(path, part) ==
    \E i \in 1..(Len(path) - Len(part) + 1) : SubSeq(path, i, i + Len(part) - 1) = part

\* String.prototype.toLowerCase, piece by piece.
LowerPiece(c) ==
    CASE c = "LOGIN" -> "login"
      [] c = "Uas" -> "uas"
      [] c = "Post" -> "post"
      [] c = "HOME" -> "home"
      [] OTHER -> c

toLowerCase(path) == [i \in 1..Len(path) |-> LowerPiece(path[i])]

Digits == {"1", "2"}

\* path.match(/^\/t\/\d+/)
MatchesThreadId(path) ==
    /\ StartsWith(path, <<"/", "t", "/">>)
    /\ Len(path) >= 4
    /\ path[4] \in Digits

\* const authPaths = [...]
authPaths ==
    {<<"/", "login">>, <<"/", "signin">>, <<"/", "signup">>, <<"/", "r", "egister">>,
     <<"/", "auth">>, <<"/", "oauth">>, <<"/", "sso">>, <<"/", "checkpoint">>,
     <<"/", "uas">>}

\* The switch of isOnFeedPage on the platform's name.
platformFeedPath(path, name) ==
    CASE name = 0 ->
           \/ StartsWith(path, <<"/", "i", "/", "flow", "/">>)
           \/ path \in {RootPath, <<"/", "home">>, <<"/", "explore">>,
                        <<"/", "notifications">>, <<"/", "messages">>}
      [] name = 1 ->
           \/ StartsWith(path, <<"/", "checkpoint">>)
           \/ StartsWith(path, <<"/", "auth", "wall">>)
           \/ path \in {FeedPath, <<"/", "feed">>, RootPath}
      [] name = 2 ->
           \/ path \in {RootPath, <<"/", "home">>, <<"/", "notifications">>,
                        <<"/", "search">>}
           \/ ~Includes(path, <<"/", "post", "/">>)
      [] name = 3 ->
           \/ path \in {RootPath, <<"/", "home">>}
           \/ (~Includes(path, <<"/", "post", "/">>) /\ ~MatchesThreadId(path))
      [] name = 4 ->
           \/ StartsWith(path, <<"/", "account", "/">>)
           \/ path \in {RootPath, <<"/", "r", "/", "all">>, <<"/", "r", "/", "popular">>}
           \/ (StartsWith(path, <<"/", "r", "/">>)
               /\ ~Includes(path, <<"/", "comments", "/">>))
      [] OTHER -> TRUE

\* The try block of isOnFeedPage: new URL(url) throws for a string it cannot
\* parse; otherwise the lower-cased path is tested against authPaths and
\* then by the platform's rules.
feedPageTry(url, name) ==
    IF ~Parses(url) THEN [threw |-> TRUE, value |-> FALSE]
    ELSE LET path == toLowerCase(url.path)
         IN  [threw |-> FALSE,
              value |-> \/ \E authPath \in authPaths : StartsWith(path, authPath)
                        \/ platformFeedPath(path, name)]

isOnFeedPageOutcome_NoCatch(url, name) == feedPageTry(url, name)

\* isOnFeedPage as its caller sees it: catch { return true }.
isOnFeedPageOutcome(url, name) ==
    LET tried == feedPageTry(url, name)
    IN  IF tried.threw THEN [threw |-> FALSE, value |-> TRUE] ELSE tried

\* isOnFeedPage(url, platform.name)
isOnFeedPage(url, name) == isOnFeedPageOutcome(url, name).value

\* The preload script's module-level state in every pane.
PanesStartup ==
    /\ paneOpacity = [p \in Panes |-> OpacityFull]
    /\ inbox = [p \in Panes |-> <<>>]
    /\ scrollY = [p \in Panes |-> 0]
    /\ lastScrollY = [p \in Panes |-> 0]
    /\ scrollDebounceTimer = [p \in Panes |-> FALSE]
    /\ timerFromDetail = [p \in Panes |-> FALSE]
    /\ paneScrollSyncEnabled = [p \in Panes |-> TRUE]
    /\ isProgrammaticScroll = [p \in Panes |-> FALSE]
    /\ toHost = [p \in Panes |-> <<>>]
    /\ paneLoaded = [p \in Panes |-> FALSE]
    /\ paneFocusModeEnabled = [p \in Panes |-> FALSE]
    /\ paneViewIndex = [p \in Panes |-> Null]
    /\ paneUrl = [p \in Panes |-> PlatformUrl(p)]
    /\ navigating = [p \in Panes |-> NoUrl]
    /\ timerAge = [p \in Panes |-> 0]
    /\ quiet = [p \in Panes |-> 0]
    /\ burst = [p \in Panes |-> 0]
    /\ smoothScrollAnimationId = [p \in Panes |-> Null]
    /\ smoothScrollTarget = [p \in Panes |-> Null]
    /\ scrollCommandDebounceTimer = [p \in Panes |-> Null]
    /\ frames = [p \in Panes |-> {}]
    /\ cooldowns = [p \in Panes |-> 0]
    /\ commandTimerAge = [p \in Panes |-> 0]
    /\ scrollEventPending = [p \in Panes |-> FALSE]
    /\ lastCommand = [p \in Panes |-> Null]

\* No function of feedState.ts has been called.
NoCall == [fn |-> "none", vis |-> <<>>, index |-> 0, flags |-> <<>>, yes |-> FALSE,
           count |-> 0, nums |-> <<>>, hostNums |-> <<>>, url |-> NoUrl,
           threw |-> FALSE]

\* The renderer before React has mounted App.
RendererStartup ==
    /\ winLoaded = FALSE
    /\ mounted = FALSE
    /\ platforms = <<>>
    /\ order = <<>>
    /\ visibility = <<>>
    /\ splits = <<>>
    /\ isDragging = Null
    /\ dragStartX = 0
    /\ hasMoved = FALSE
    /\ toRenderer = <<>>
    /\ fromRenderer = <<>>
    /\ savedSettings = NoSettings
    /\ loadedSettings = NoSettings
    /\ lastInput = "none"
    /\ pureCall = NoCall

\* The application has not been quit yet.
FirstSession ==
    /\ restarts = 0
    /\ splitsAtClose = <<>>

Init ==
    /\ \E file \in StoredFiles : HostStartup(file)
    /\ PanesStartup
    /\ RendererStartup
    /\ FirstSession

\* ------------------------------------------------------------------------
\* Spec: the host's layout and settings commands, with any payload
\* ------------------------------------------------------------------------

ToggleInputs == (0 - 1)..N

OrderInputs == {DefaultOrder, ReverseOrder, RepeatedOrder, OutOfRangeOrder, ShortOrder}

SplitInputs == {<<>>, calculateEqualSplits(N), <<Pct(10)>>}

notHost == <<focusPaneVars, scrollPaneVars, pageVars, rendererVars, extraVars>>

ToggleVisibilityStep ==
    \E index \in ToggleInputs : toggleVisibility(index) /\ UNCHANGED notHost

ReorderStep ==
    \E o \in OrderInputs : reorderPlatforms(o) /\ UNCHANGED notHost

UpdateLayoutStep ==
    \E s \in SplitInputs : UPDATE_LAYOUT(s) /\ UNCHANGED notHost

ResetLayoutStep == RESET_LAYOUT /\ UNCHANGED notHost

ResizeStep == \E b \in WindowSizes : WinResize(b) /\ UNCHANGED notHost

ToggleScrollSyncStep == TOGGLE_SCROLL_SYNC /\ UNCHANGED notHost

ToggleFocusModeStep == TOGGLE_FOCUS_MODE /\ UNCHANGED notHost

ToggleGrayscaleStep == TOGGLE_GRAYSCALE_MODE /\ UNCHANGED notHost

Next ==
    \/ ToggleVisibilityStep
    \/ ReorderStep
    \/ UpdateLayoutStep
    \/ ResetLayoutStep
    \/ ResizeStep
    \/ ToggleScrollSyncStep
    \/ ToggleFocusModeStep
    \/ ToggleGrayscaleStep

Spec == Init /\ [][Next]_vars

\* ------------------------------------------------------------------------
\* Claims
\* ------------------------------------------------------------------------

\* C1: in every reachable host state at least one pane is visible.
AtLeastOneVisible ==
    /\ Len(platformVisibility) = N
    /\ \E i \in 1..N : platformVisibility[i]

\* A toggle aimed at the only visible pane has just been handled.
LastVisibleToggled ==
    /\ lastEvent.type = "TOGGLE_VISIBILITY"
    /\ lastEvent.index \in Panes
    /\ Count(platformVisibility) = 1
    /\ platformVisibility[lastEvent.index + 1]

\* isValidPermutation(order, platformCount) of the renderer's feedState.
RECURSIVE SeenAll(_, _, _, _)
SeenAll(perm, i, seen, platformCount) ==
    IF i > Len(perm) THEN Cardinality(seen) = platformCount
    ELSE IF perm[i] < 0 \/ perm[i] >= platformCount \/ perm[i] \in seen THEN FALSE
    ELSE SeenAll(perm, i + 1, seen \cup {perm[i]}, platformCount)

isValidPermutation(perm, platformCount) ==
    IF Len(perm) # platformCount THEN FALSE
    ELSE SeenAll(perm, 1, {}, platformCount)

\* C2: in every reachable host state the display order is a permutation
\* of [0,N); a malformed REORDER_PLATFORMS leaves the order unchanged.
OrderIsPermutation == isValidPermutation(platformOrder, N)


\* ------------------------------------------------------------------------
\* SpecFocus: focus mode.  The host's focus handlers, the per-pane FIFO of
\* host messages, and the pane documents that show the opacity.
\* ------------------------------------------------------------------------

IsPaneMsg(m, types) == m.to \in Panes /\ m.type \in types

\* webContents.send appends to the FIFO of the target pane.
Enqueue(box, sent, types) ==
    [p \in Panes |->
        box[p] \o SelectSeq(sent, LAMBDA m : IsPaneMsg(m, types) /\ m.to = p)]

FocusMsgTypes == {"SET_VIEW_OPACITY", "reload"}

\* A host step may add to the pane FIFOs only while they are short.
InboxesShort == \A p \in Panes : Len(inbox[p]) < MaxInFlight

SendToPanes ==
    /\ InboxesShort
    /\ inbox' = Enqueue(inbox, out', FocusMsgTypes)
    /\ UNCHANGED <<paneOpacity, scrollPaneVars, rendererVars, extraVars, pageVars>>

FocusViewStep == \E i \in Panes : FOCUS_VIEW(i) /\ SendToPanes

FocusToggleStep == TOGGLE_FOCUS_MODE /\ SendToPanes

BlurStep == WinBlur /\ SendToPanes

ReloadAllStep == RELOAD_ALL /\ SendToPanes

FocusDestroyStep ==
    \E p \in Panes :
        /\ Cardinality(destroyed) < MaxDestroyed
        /\ DestroyView(p)
        /\ inbox' = [inbox EXCEPT ![p] = <<>>]
        /\ UNCHANGED <<paneOpacity, scrollPaneVars, rendererVars, extraVars, pageVars>>

\* preload: ipcRenderer.on('SET_VIEW_OPACITY') sets
\* document.documentElement.style.opacity.
PaneSetOpacity(p) ==
    /\ inbox[p] # <<>>
    /\ Head(inbox[p]).type = "SET_VIEW_OPACITY"
    /\ paneOpacity' = [paneOpacity EXCEPT ![p] = Head(inbox[p]).opacity]
    /\ inbox' = [inbox EXCEPT ![p] = Tail(inbox[p])]
    /\ lastEvent' = [type |-> "pane:SET_VIEW_OPACITY", view |-> p]
    /\ out' = <<>>
    /\ UNCHANGED <<hostVars, scrollPaneVars, rendererVars, extraVars, pageVars>>

\* The reloaded document commits: a fresh documentElement has no opacity
\* style (full opacity).  Messages sent after reload() and before the
\* commit reached the old document and are gone with it.
PaneReloadCommit(p) ==
    /\ inbox[p] # <<>>
    /\ Head(inbox[p]).type = "reload"
    /\ \E lost \in 0..(Len(inbox[p]) - 1) :
          inbox' = [inbox EXCEPT ![p] = SubSeq(inbox[p], 2 + lost, Len(inbox[p]))]
    /\ paneOpacity' = [paneOpacity EXCEPT ![p] = OpacityFull]
    /\ lastEvent' = [type |-> "pane:reloaded", view |-> p]
    /\ out' = <<>>
    /\ UNCHANGED <<hostVars, scrollPaneVars, rendererVars, extraVars, pageVars>>

PaneSetOpacityStep == \E p \in Panes : PaneSetOpacity(p)

PaneReloadStep == \E p \in Panes : PaneReloadCommit(p)

InitFocus ==
    /\ \E file \in PlainFiles : HostStartup(file)
    /\ PanesStartup
    /\ RendererStartup
    /\ FirstSession

NextFocus ==
    \/ FocusViewStep
    \/ FocusToggleStep
    \/ BlurStep
    \/ ReloadAllStep
    \/ FocusDestroyStep
    \/ PaneSetOpacityStep
    \/ PaneReloadStep

SpecFocus == InitFocus /\ [][NextFocus]_vars

\* calculateViewOpacity of settings.test.ts (Property 4: Focus Mode Opacity).
calculateViewOpacity(enabled, focused, viewIndex) ==
    IF ~enabled THEN OpacityFull
    ELSE IF focused = Null THEN OpacityFull
    ELSE IF viewIndex = focused THEN OpacityFull ELSE OpacityDim

AllDelivered == \A p \in Panes : inbox[p] = <<>>

\* C8: once all messages are delivered, every live pane's opacity is the
\* opacity function of (focusModeEnabled, focusedViewIndex, pane).
OpacityMatchesFocus ==
    AllDelivered =>
        \A p \in Panes \ destroyed :
            paneOpacity[p] =
                calculateViewOpacity(focusModeEnabled, focusedViewIndex, p)

\* The opacities pane p may end with once its FIFO is drained.
RECURSIVE FinalOpacities(_, _)
FinalOpacities(opacity, box) ==
    IF box = <<>> THEN {opacity}
    ELSE IF Head(box).type = "SET_VIEW_OPACITY"
         THEN FinalOpacities(Head(box).opacity, Tail(box))
    ELSE IF Head(box).type = "reload"
         THEN UNION {FinalOpacities(OpacityFull, SubSeq(box, 2 + lost, Len(box))) :
                        lost \in 0..(Len(box) - 1)}
    ELSE FinalOpacities(opacity, Tail(box))

\* C9: whenever the window loses input focus, the focused index becomes
\* none and every live pane is restored to opacity 1.0.
BlurRestoresAll ==
    lastEvent.type = "blur" =>
        /\ focusedViewIndex = Null
        /\ \A p \in Panes \ destroyed :
              FinalOpacities(paneOpacity[p], inbox[p]) = {OpacityFull}

\* The window lost focus while a pane was focused and another still dim.
BlurWhileDimmed ==
    /\ lastEvent.type = "blur"
    /\ out # <<>>
    /\ \E p \in Panes \ destroyed : paneOpacity[p] = OpacityDim

\* C10: while focus mode is disabled the focused index is none, and a
\* FOCUS_VIEW received while it is disabled sends no opacity message.
DisabledMeansUnfocused ==
    ~focusModeEnabled =>
        /\ focusedViewIndex = Null
        /\ lastEvent.type = "FOCUS_VIEW" => out = <<>>

\* A FOCUS_VIEW arrived after focus mode was disabled with panes dimmed.
FocusViewWhileDisabled ==
    /\ lastEvent.type = "FOCUS_VIEW"
    /\ ~focusModeEnabled
    /\ \E p \in Panes : \E i \in 1..Len(inbox[p]) :
          inbox[p][i].type = "SET_VIEW_OPACITY"


\* ------------------------------------------------------------------------
\* SpecScroll: scroll sync.  The scroll listener of the preload script with
\* its trailing debounce timer, the pane-to-host FIFO, navigation events
\* and the host's SCROLL_UPDATE dispatch.
\* ------------------------------------------------------------------------

\* if (delta < 5) return
NoiseThreshold == 5

ScrollStep == NoiseThreshold - 1

ScrollPositions == {k * ScrollStep : k \in 0..MaxScroll}

Scrollers == 0..(NumScrollers - 1)

Abs(x) == IF x < 0 THEN 0 - x ELSE x

\* The scroll listener's early returns.
ScrollObserved(programmatic, enabled, currentY, lastY) ==
    /\ ~programmatic
    /\ ~(~enabled)
    /\ ~(Abs(currentY - lastY) < NoiseThreshold)

Min(a, b) == IF a < b THEN a ELSE b

\* The longest burst of accepted scroll events that is counted.
MaxBurst == 2

\* The debounce delay of both setTimeout(..., 150), in ticks of 50ms.
DebounceTicks == 3

\* smoothScrollTo(y, 350): the duration, in ticks of 50ms.
AnimationTicks == 7

RestartedAge_KeepPending(pending, age) == IF pending THEN age ELSE 0

\* if (scrollDebounceTimer) clearTimeout(scrollDebounceTimer);
\* scrollDebounceTimer = setTimeout(..., 150): the age of the timer that is
\* pending afterwards.
RestartedAge(pending, age) == 0

\* lastCommand of a pane the user has scrolled since it was last idle.
Scrolled == 0 - 2

\* Pane p has no command timer, no animate callback, no cooldown timeout
\* and no scroll event of a scrollTo pending.
Idle(p) ==
    /\ scrollCommandDebounceTimer[p] = Null
    /\ frames[p] = {}
    /\ cooldowns[p] = 0
    /\ ~scrollEventPending[p]

\* window.addEventListener('scroll') in pane p, with window.scrollY =
\* currentY. An observed scroll records the position and restarts the
\* timer.
ScrollListener(p, currentY) ==
    IF ScrollObserved(isProgrammaticScroll[p], paneScrollSyncEnabled[p], currentY,
                      lastScrollY[p])
    THEN /\ lastScrollY' = [lastScrollY EXCEPT ![p] = currentY]
         /\ scrollDebounceTimer' = [scrollDebounceTimer EXCEPT ![p] = TRUE]
         /\ timerFromDetail' = [timerFromDetail EXCEPT ![p] = p \in viewsOnPost]
         /\ timerAge' = [timerAge EXCEPT ![p] =
                             RestartedAge(scrollDebounceTimer[p], @)]
         /\ quiet' = [quiet EXCEPT ![p] = 0]
         /\ burst' = [burst EXCEPT ![p] = Min(@ + 1, MaxBurst)]
    ELSE UNCHANGED <<lastScrollY, scrollDebounceTimer, timerFromDetail, timerAge,
                     quiet, burst>>

\* The user scrolls pane p to y; the scroll event of the frame, which also
\* stands for any scrollTo of the frame, runs the listener.
\* An observed scroll records the position and restarts the timer.
UserScroll(p, y) ==
    /\ y # scrollY[p]
    /\ scrollY' = [scrollY EXCEPT ![p] = y]
    /\ ScrollListener(p, y)
    /\ scrollEventPending' = [scrollEventPending EXCEPT ![p] = FALSE]
    /\ lastCommand' = [lastCommand EXCEPT ![p] = Scrolled]
    /\ lastEvent' = [type |-> "pane:scroll", view |-> p, y |-> y,
                     observed |-> ScrollObserved(isProgrammaticScroll[p],
                                                 paneScrollSyncEnabled[p], y,
                                                 lastScrollY[p])]
    /\ out' = <<>>
    /\ UNCHANGED <<hostVars, focusPaneVars, paneScrollSyncEnabled,
                   isProgrammaticScroll, toHost, rendererVars, quietVars, lastInput,
                   pageVars>>

\* The debounce timer expires:
\* ipcRenderer.send('SCROLL_UPDATE', { y: window.scrollY }).
ScrollTimerFires(p) ==
    /\ scrollDebounceTimer[p]
    /\ Len(toHost[p]) < MaxInFlight
    /\ scrollDebounceTimer' = [scrollDebounceTimer EXCEPT ![p] = FALSE]
    /\ toHost' = [toHost EXCEPT ![p] =
                     Append(@, [type |-> "SCROLL_UPDATE", y |-> scrollY[p],
                                fromDetail |-> timerFromDetail[p]])]
    /\ burst' = [burst EXCEPT ![p] = 0]
    /\ lastEvent' = [type |-> "pane:timer", view |-> p, burst |-> burst[p]]
    /\ out' = <<>>
    /\ UNCHANGED <<hostVars, focusPaneVars, scrollY, lastScrollY, timerFromDetail,
                   paneScrollSyncEnabled, isProgrammaticScroll, rendererVars, quietVars,
                   lastInput, timerAge, quiet, scrollEventPending, lastCommand,
                   pageVars>>

\* preload: ipcRenderer.on('SCROLL_SYNC_CHANGED')
PaneSyncChanged(p) ==
    /\ inbox[p] # <<>>
    /\ Head(inbox[p]).type = "SCROLL_SYNC_CHANGED"
    /\ paneScrollSyncEnabled' =
          [paneScrollSyncEnabled EXCEPT ![p] = Head(inbox[p]).enabled]
    /\ inbox' = [inbox EXCEPT ![p] = Tail(inbox[p])]
    /\ lastEvent' = [type |-> "pane:SCROLL_SYNC_CHANGED", view |-> p]
    /\ out' = <<>>
    /\ UNCHANGED <<hostVars, paneOpacity, scrollY, lastScrollY, scrollDebounceTimer,
                   timerFromDetail, isProgrammaticScroll, toHost, rendererVars, extraVars, pageVars>>

\* The host handles the oldest SCROLL_UPDATE sent by pane p.
HostScrollUpdate(p) ==
    /\ toHost[p] # <<>>
    /\ p \notin destroyed
    /\ SCROLL_UPDATE(p, Head(toHost[p]).y, Head(toHost[p]).fromDetail)
    /\ toHost' = [toHost EXCEPT ![p] = Tail(@)]
    /\ UNCHANGED <<focusPaneVars, scrollY, lastScrollY, scrollDebounceTimer,
                   timerFromDetail, paneScrollSyncEnabled, isProgrammaticScroll,
                   rendererVars, extraVars, pageVars>>

\* A same-document navigation keeps the pane's document and its timers.
NavigateInPageStep ==
    \E p \in Scrollers : \E onFeed \in BOOLEAN :
        /\ DidNavigate(p, TRUE, onFeed)
        /\ UNCHANGED <<focusPaneVars, scrollPaneVars, rendererVars, extraVars, pageVars>>

\* A full navigation replaces the document: the preload script starts over
\* (no timer, position 0, scrollSyncEnabled = true).
NavigateStep ==
    \E p \in Scrollers : \E onFeed \in BOOLEAN :
        /\ DidNavigate(p, FALSE, onFeed)
        /\ scrollY' = [scrollY EXCEPT ![p] = 0]
        /\ lastScrollY' = [lastScrollY EXCEPT ![p] = 0]
        /\ scrollDebounceTimer' = [scrollDebounceTimer EXCEPT ![p] = FALSE]
        /\ timerFromDetail' = [timerFromDetail EXCEPT ![p] = FALSE]
        /\ paneScrollSyncEnabled' = [paneScrollSyncEnabled EXCEPT ![p] = TRUE]
        /\ isProgrammaticScroll' = [isProgrammaticScroll EXCEPT ![p] = FALSE]
        /\ UNCHANGED <<focusPaneVars, toHost, rendererVars, extraVars, pageVars>>

ScrollMsgTypes == {"SCROLL_SYNC_CHANGED"}

\* The FIFOs of the panes whose scroll listener runs.
ScrollToggleStep ==
    /\ \A p \in Scrollers : Len(inbox[p]) < MaxInFlight
    /\ TOGGLE_SCROLL_SYNC
    /\ inbox' = [p \in Panes |->
                    IF p \in Scrollers
                    THEN Enqueue(inbox, out', ScrollMsgTypes)[p] ELSE inbox[p]]
    /\ UNCHANGED <<paneOpacity, scrollPaneVars, rendererVars, extraVars, pageVars>>

UserScrollStep == \E p \in Scrollers : \E y \in ScrollPositions : UserScroll(p, y)

ScrollTimerStep == \E p \in Scrollers : ScrollTimerFires(p)

PaneSyncChangedStep == \E p \in Scrollers : PaneSyncChanged(p)

HostScrollUpdateStep == \E p \in Scrollers : HostScrollUpdate(p)

\* Sessions that differ in the stored scroll-sync flag.
InitScroll ==
    /\ \E file \in {f \in PlainFiles : f.doc.focusModeEnabled = JBool(FALSE)} :
          HostStartup(file)
    /\ PanesStartup
    /\ RendererStartup
    /\ FirstSession

NextScroll ==
    \/ UserScrollStep
    \/ ScrollTimerStep
    \/ PaneSyncChangedStep
    \/ HostScrollUpdateStep
    \/ NavigateInPageStep
    \/ NavigateStep
    \/ ScrollToggleStep

SpecScroll == InitScroll /\ [][NextScroll]_vars

\* ------------------------------------------------------------------------
\* SpecDebounce: the scroll observer of the panes with the passing of time.
\* ------------------------------------------------------------------------

\* One tick (50ms) passes. What is due within the tick has happened: a
\* timer whose delay has run out has fired, and so has every 10ms timeout;
\* the scroll event of a scrollTo has been dispatched, the pending
\* animate callback has run in a frame of the tick, and the host has
\* handled the messages of the panes.
Tick ==
    /\ \A p \in Panes :
          /\ toHost[p] = <<>>
          /\ ~(scrollDebounceTimer[p] /\ timerAge[p] = DebounceTicks)
          /\ ~(scrollCommandDebounceTimer[p] # Null
                 /\ commandTimerAge[p] = DebounceTicks)
          /\ cooldowns[p] = 0
          /\ ~scrollEventPending[p]
          /\ \A f \in frames[p] : ~f.due
    /\ \E p \in Panes :
          \/ scrollDebounceTimer[p]
          \/ quiet[p] < DebounceTicks
          \/ scrollCommandDebounceTimer[p] # Null
          \/ frames[p] # {}
    /\ timerAge' = [p \in Panes |->
                       IF scrollDebounceTimer[p] THEN timerAge[p] + 1 ELSE timerAge[p]]
    /\ quiet' = [p \in Panes |-> Min(quiet[p] + 1, DebounceTicks)]
    /\ commandTimerAge' =
          [p \in Panes |->
              IF scrollCommandDebounceTimer[p] # Null
              THEN commandTimerAge[p] + 1 ELSE commandTimerAge[p]]
    /\ frames' = [p \in Panes |->
                     {[f EXCEPT !.elapsed = Min(@ + 1, AnimationTicks), !.due = TRUE] :
                         f \in frames[p]}]
    /\ lastEvent' = [type |-> "tick"]
    /\ out' = <<>>
    /\ UNCHANGED <<hostVars, focusPaneVars, scrollPaneVars, pageVars, rendererVars,
                   storeVars, sessionVars, libVars, navVars, lastInput, burst,
                   scrollEventPending, lastCommand, smoothScrollAnimationId,
                   smoothScrollTarget, scrollCommandDebounceTimer, cooldowns>>

\* setTimeout(..., 150): the timer fires when its delay has run out.
ScrollTimerExpires(p) ==
    /\ timerAge[p] = DebounceTicks
    /\ ScrollTimerFires(p)

TickStep == Tick

ScrollTimerExpiresStep == \E p \in Scrollers : ScrollTimerExpires(p)

InitDebounce == InitScroll

NextDebounce ==
    \/ UserScrollStep
    \/ TickStep
    \/ ScrollTimerExpiresStep
    \/ HostScrollUpdateStep

SpecDebounce == InitDebounce /\ [][NextDebounce]_vars

\* C26: a SCROLL_UPDATE of a pane is sent only when the debounce window has
\* run out since the last scroll event its observer accepted, it carries
\* the position the pane has at that moment, and it is the only one of its
\* burst: the timer is armed by accepted scroll events alone, stays armed
\* until it fires, and is disarmed by firing.
OneUpdatePerBurst ==
    [][\A p \in Scrollers :
          /\ (lastEvent'.type = "pane:timer" /\ lastEvent'.view = p) =>
                 /\ quiet[p] = DebounceTicks
                 /\ Len(toHost'[p]) = Len(toHost[p]) + 1
                 /\ toHost'[p][Len(toHost'[p])].type = "SCROLL_UPDATE"
                 /\ toHost'[p][Len(toHost'[p])].y = scrollY[p]
                 /\ ~scrollDebounceTimer'[p]
          /\ (~(lastEvent'.type = "pane:timer" /\ lastEvent'.view = p)) =>
                 /\ Len(toHost'[p]) <= Len(toHost[p])
                 /\ scrollDebounceTimer[p] => scrollDebounceTimer'[p]
          /\ (~scrollDebounceTimer[p] /\ scrollDebounceTimer'[p]) =>
                 /\ lastEvent'.type = "pane:scroll"
                 /\ lastEvent'.observed]_vars

\* A burst of three accepted scroll events, none later than the window after
\* the one before, has been answered by its SCROLL_UPDATE.
BurstAnswered ==
    \E p \in Scrollers :
       /\ lastEvent.type = "pane:timer"
       /\ lastEvent.view = p
       /\ lastEvent.burst = MaxBurst

\* ------------------------------------------------------------------------
\* SpecAnimate: a pane that receives SCROLL_COMMANDs, with its command
\* debounce, its animation frames, its cooldown timeouts, its scroll
\* events and the user's scrolling.
\* ------------------------------------------------------------------------

\* if (Math.abs(distance) < 10): the target is already close.
CloseDistance == 10

\* The panes that receive commands.
Receivers == {0}

\* The y of the commands: two far apart, and one that is close to another
\* and further from it than the noise threshold.
FarY == 8 * ScrollStep

CommandYs == {0, FarY, FarY + NoiseThreshold + 1}

\* The handles of requestAnimationFrame. A new handle differs from the
\* recorded one and from those of the pending callbacks.
Handles == 1..3

FreshHandle(p) ==
    CHOOSE h \in Handles :
       h # smoothScrollAnimationId[p] /\ \A f \in frames[p] : f.id # h

\* startY + distance * easeOut at elapsed ticks of the duration, to the
\* pixel: progress = Math.min(elapsed / duration, 1),
\* easeOut = 1 - Math.pow(1 - progress, 3).
Cube(x) == x * x * x

EasedY(startY, distance, elapsed) ==
    LET part == (Abs(distance) * (Cube(AnimationTicks) - Cube(AnimationTicks - elapsed)))
                   \div Cube(AnimationTicks)
    IN  IF distance < 0 THEN startY - part ELSE startY + part

\* window.scrollTo({ top: y, behavior: 'instant' }): a scroll event is
\* queued when the position changes.
ScrollToQueues(p, y) == scrollEventPending[p] \/ y # scrollY[p]

CommandIgnored_Closer(p, y) == Abs(scrollY[p] - y) < NoiseThreshold

\* A SCROLL_COMMAND is ignored when the pane is already close and no target
\* is recorded.
CommandIgnored(p, y) ==
    Abs(scrollY[p] - y) < CloseDistance /\ smoothScrollTarget[p] = Null

\* ipcRenderer.on('SCROLL_COMMAND'): the host's message { y } reaches pane p.
\* The step that delivers the message says what becomes of the pane's FIFO.
OnScrollCommand(p, y) ==
    /\ IF CommandIgnored(p, y)
       THEN UNCHANGED <<scrollCommandDebounceTimer, commandTimerAge>>
       ELSE /\ scrollCommandDebounceTimer' =
                  [scrollCommandDebounceTimer EXCEPT ![p] = y]
            /\ commandTimerAge' = [commandTimerAge EXCEPT ![p] = 0]
    /\ lastCommand' = [lastCommand EXCEPT ![p] =
                           IF @ = Scrolled /\ ~Idle(p) THEN Scrolled ELSE y]
    /\ lastEvent' = [type |-> "pane:SCROLL_COMMAND", view |-> p, y |-> y,
                     ignored |-> CommandIgnored(p, y)]
    /\ out' = <<>>
    /\ UNCHANGED <<hostVars, paneOpacity, scrollPaneVars, pageVars, rendererVars,
                   storeVars, sessionVars, libVars, navVars, lastInput,
                   timerAge, quiet, burst, scrollEventPending,
                   smoothScrollAnimationId, smoothScrollTarget, frames, cooldowns>>

\* smoothScrollTo(targetY, 350) in pane p: the pending animate callback of
\* the recorded handle is cancelled; a close target is jumped to, another
\* one gets an animation whose first frame is requested.
smoothScrollTo(p, targetY) ==
    IF Abs(targetY - scrollY[p]) < CloseDistance
    THEN /\ frames' = [frames EXCEPT ![p] =
                          {f \in @ : f.id # smoothScrollAnimationId[p]}]
         /\ scrollY' = [scrollY EXCEPT ![p] = targetY]
         /\ scrollEventPending' =
               [scrollEventPending EXCEPT ![p] = ScrollToQueues(p, targetY)]
         /\ UNCHANGED <<smoothScrollAnimationId, smoothScrollTarget>>
    ELSE /\ smoothScrollTarget' = [smoothScrollTarget EXCEPT ![p] = targetY]
         /\ smoothScrollAnimationId' =
               [smoothScrollAnimationId EXCEPT ![p] = FreshHandle(p)]
         /\ frames' = [frames EXCEPT ![p] =
                          {f \in @ : f.id # smoothScrollAnimationId[p]}
                          \cup {[id |-> FreshHandle(p), startY |-> scrollY[p],
                                 targetY |-> targetY, elapsed |-> 0,
                                 due |-> FALSE]}]
         /\ UNCHANGED <<scrollY, scrollEventPending>>

\* The scrollCommandDebounceTimer of pane p expires:
\* smoothScrollTo(y, 350); scrollCommandDebounceTimer = null.
CommandTimerFires(p) ==
    /\ scrollCommandDebounceTimer[p] # Null
    /\ commandTimerAge[p] = DebounceTicks
    /\ smoothScrollTo(p, scrollCommandDebounceTimer[p])
    /\ scrollCommandDebounceTimer' = [scrollCommandDebounceTimer EXCEPT ![p] = Null]
    /\ lastEvent' = [type |-> "pane:commandTimer", view |-> p,
                     y |-> scrollCommandDebounceTimer[p],
                     jumped |-> Abs(scrollCommandDebounceTimer[p] - scrollY[p])
                                   < CloseDistance,
                     cancelled |-> \E f \in frames[p] :
                                      f.id = smoothScrollAnimationId[p]]
    /\ out' = <<>>
    /\ UNCHANGED <<hostVars, focusPaneVars, lastScrollY, scrollDebounceTimer,
                   timerFromDetail, paneScrollSyncEnabled, isProgrammaticScroll,
                   toHost, pageVars, rendererVars, storeVars, sessionVars, libVars,
                   navVars, lastInput, timerAge, quiet, burst, lastCommand,
                   cooldowns, commandTimerAge>>

\* Whether the callback f runs at the duration or later (progress = 1).
LastFrame(f) == f.elapsed = AnimationTicks

\* The browser runs the animate callback f of pane p in a frame, after the
\* scroll events of the frame: at less than the duration it writes an
\* intermediate position and requests the next frame, at the duration or
\* later it writes the target, clears the handle and the target and starts
\* the 10ms timeout.
animate(p, f) ==
    /\ f \in frames[p]
    /\ f.due
    /\ ~scrollEventPending[p]
    /\ LET currentY == EasedY(f.startY, f.targetY - f.startY, f.elapsed)
       IN  /\ isProgrammaticScroll' = [isProgrammaticScroll EXCEPT ![p] = TRUE]
           /\ lastScrollY' = [lastScrollY EXCEPT ![p] = currentY]
           /\ scrollY' = [scrollY EXCEPT ![p] = currentY]
           /\ scrollEventPending' =
                 [scrollEventPending EXCEPT ![p] = ScrollToQueues(p, currentY)]
    /\ IF ~LastFrame(f)
       THEN /\ smoothScrollAnimationId' =
                  [smoothScrollAnimationId EXCEPT ![p] = FreshHandle(p)]
            /\ frames' = [frames EXCEPT ![p] =
                             (@ \ {f}) \cup {[f EXCEPT !.id = FreshHandle(p),
                                                       !.due = FALSE]}]
            /\ UNCHANGED <<smoothScrollTarget, cooldowns>>
       ELSE /\ smoothScrollAnimationId' = [smoothScrollAnimationId EXCEPT ![p] = Null]
            /\ smoothScrollTarget' = [smoothScrollTarget EXCEPT ![p] = Null]
            /\ cooldowns' = [cooldowns EXCEPT ![p] = @ + 1]
            /\ frames' = [frames EXCEPT ![p] = @ \ {f}]
    /\ lastEvent' = [type |-> "pane:frame", view |-> p, last |-> LastFrame(f),
                     id |-> f.id, recorded |-> smoothScrollAnimationId[p]]
    /\ out' = <<>>
    /\ UNCHANGED <<hostVars, focusPaneVars, scrollDebounceTimer, timerFromDetail,
                   paneScrollSyncEnabled, toHost, pageVars, rendererVars, storeVars,
                   sessionVars, libVars, navVars, lastInput, timerAge, quiet, burst,
                   lastCommand, scrollCommandDebounceTimer, commandTimerAge>>

\* setTimeout(() => { isProgrammaticScroll = false }, 10) expires.
CooldownFires(p) ==
    /\ cooldowns[p] > 0
    /\ cooldowns' = [cooldowns EXCEPT ![p] = @ - 1]
    /\ isProgrammaticScroll' = [isProgrammaticScroll EXCEPT ![p] = FALSE]
    /\ lastEvent' = [type |-> "pane:cooldown", view |-> p]
    /\ out' = <<>>
    /\ UNCHANGED <<hostVars, focusPaneVars, scrollY, lastScrollY, scrollDebounceTimer,
                   timerFromDetail, paneScrollSyncEnabled, toHost, pageVars,
                   rendererVars, storeVars, sessionVars, libVars, navVars, lastInput,
                   observerVars, smoothScrollAnimationId, smoothScrollTarget,
                   scrollCommandDebounceTimer, frames, commandTimerAge>>

\* The scroll event queued by a scrollTo of pane p is dispatched; the scroll
\* listener runs with the position the pane has now.
ScrollEvent(p) ==
    /\ scrollEventPending[p]
    /\ scrollEventPending' = [scrollEventPending EXCEPT ![p] = FALSE]
    /\ ScrollListener(p, scrollY[p])
    /\ lastEvent' = [type |-> "pane:scrollTo", view |-> p, y |-> scrollY[p],
                     observed |-> ScrollObserved(isProgrammaticScroll[p],
                                                 paneScrollSyncEnabled[p],
                                                 scrollY[p], lastScrollY[p])]
    /\ out' = <<>>
    /\ UNCHANGED <<hostVars, focusPaneVars, scrollY, paneScrollSyncEnabled,
                   isProgrammaticScroll, toHost, pageVars, rendererVars, quietVars,
                   lastInput, lastCommand>>

ScrollCommandStep ==
    \E p \in Receivers : \E y \in CommandYs :
        OnScrollCommand(p, y) /\ UNCHANGED inbox

CommandTimerStep == \E p \in Receivers : CommandTimerFires(p)

AnimateStep == \E p \in Receivers : \E f \in frames[p] : animate(p, f)

CooldownStep == \E p \in Receivers : CooldownFires(p)

ScrollEventStep == \E p \in Receivers : ScrollEvent(p)

ReceiverScrollStep ==
    \E p \in Receivers : \E y \in ScrollPositions : UserScroll(p, y)

ReceiverTimerStep == \E p \in Receivers : ScrollTimerExpires(p)

ReceiverUpdateStep == \E p \in Receivers : HostScrollUpdate(p)

InitAnimate ==
    /\ HostStartup(NoFile)
    /\ PanesStartup
    /\ RendererStartup
    /\ FirstSession

NextAnimate ==
    \/ ScrollCommandStep
    \/ CommandTimerStep
    \/ AnimateStep
    \/ CooldownStep
    \/ ScrollEventStep
    \/ ReceiverScrollStep
    \/ ReceiverTimerStep
    \/ ReceiverUpdateStep
    \/ TickStep

SpecAnimate == InitAnimate /\ [][NextAnimate]_vars

\* C27: the scroll event of a scrollTo that pane p made for a
\* SCROLL_COMMAND (a frame of the animation, or the jump to a close
\* target) is never taken for a user scroll, so it arms no SCROLL_UPDATE.
SyncedScrollNotEchoed ==
    [][\A p \in Receivers :
          (lastEvent'.type = "pane:scrollTo" /\ lastEvent'.view = p) =>
             /\ ~lastEvent'.observed
             /\ scrollDebounceTimer'[p] = scrollDebounceTimer[p]]_vars

\* C28: isProgrammaticScroll of a pane is set only while an animate callback
\* of the pane is pending or a cooldown timeout is; with none of them it is
\* clear.
FlagOnlyWhileAnimating ==
    \A p \in Receivers :
       isProgrammaticScroll[p] => (frames[p] # {} \/ cooldowns[p] > 0)

\* C29: when a pane that the user has not scrolled is idle again after
\* SCROLL_COMMANDs, its position is less than 10 away from the y of the
\* last one it received.
LastCommandWins ==
    \A p \in Receivers :
       (Idle(p) /\ lastCommand[p] # Null /\ lastCommand[p] # Scrolled) =>
           Abs(scrollY[p] - lastCommand[p]) < CloseDistance

\* C30: a pane has at most one pending animate callback, it is the one of
\* the recorded handle and runs towards the recorded target, and with no
\* callback pending the recorded handle and target are empty.
OneAnimationRecorded ==
    \A p \in Receivers :
       /\ Cardinality(frames[p]) <= 1
       /\ \A f \in frames[p] :
             f.id = smoothScrollAnimationId[p] /\ f.targetY = smoothScrollTarget[p]
       /\ frames[p] = {} =>
             (smoothScrollAnimationId[p] = Null /\ smoothScrollTarget[p] = Null)

\* What a SCROLL_COMMAND that is a no-op leaves alone in pane p: the
\* position, the timers and the animation state.
CommandLeftAlone(p) ==
    /\ scrollY'[p] = scrollY[p]
    /\ lastScrollY'[p] = lastScrollY[p]
    /\ isProgrammaticScroll'[p] = isProgrammaticScroll[p]
    /\ scrollDebounceTimer'[p] = scrollDebounceTimer[p]
    /\ scrollCommandDebounceTimer'[p] = scrollCommandDebounceTimer[p]
    /\ commandTimerAge'[p] = commandTimerAge[p]
    /\ smoothScrollAnimationId'[p] = smoothScrollAnimationId[p]
    /\ smoothScrollTarget'[p] = smoothScrollTarget[p]
    /\ frames'[p] = frames[p]
    /\ cooldowns'[p] = cooldowns[p]

\* C31 as stated: a SCROLL_COMMAND whose y is less than 10 away from the
\* position of the pane changes nothing in the pane.
CloseCommandIsNoOp ==
    [][\A p \in Receivers :
          (/\ lastEvent'.type = "pane:SCROLL_COMMAND"
           /\ lastEvent'.view = p
           /\ Abs(scrollY[p] - lastEvent'.y) < CloseDistance)
          => CommandLeftAlone(p)]_vars

\* C31, amended: a SCROLL_COMMAND whose y is less than 10 away from the
\* position of a pane that has no animation target recorded changes nothing
\* in the pane.
CloseCommandIsNoOpWithoutTarget ==
    [][\A p \in Receivers :
          (/\ lastEvent'.type = "pane:SCROLL_COMMAND"
           /\ lastEvent'.view = p
           /\ Abs(scrollY[p] - lastEvent'.y) < CloseDistance
           /\ smoothScrollTarget[p] = Null)
          => CommandLeftAlone(p)]_vars

\* A close command has reached a pane that has no target recorded and a
\* command timer pending, and is not at the y of the command.
CloseCommandIgnoredWithTimerPending ==
    \E p \in Receivers :
       /\ lastEvent.type = "pane:SCROLL_COMMAND"
       /\ lastEvent.view = p
       /\ Abs(scrollY[p] - lastEvent.y) < CloseDistance
       /\ scrollY[p] # lastEvent.y
       /\ smoothScrollTarget[p] = Null
       /\ scrollCommandDebounceTimer[p] # Null

\* ------------------------------------------------------------------------
\* SpecDetail: the host's dispatch of SCROLL_UPDATEs of another pane to a
\* receiving pane that navigates in-page between feed and detail pages.
\* ------------------------------------------------------------------------

\* The pane whose SCROLL_UPDATEs the host dispatches.
Sender == 1

\* The positions the sender reports.
SenderYs == {0, FarY}

\* The host handles a SCROLL_UPDATE { y } of the sender, the commands it
\* sent before having been delivered; the commands it sends to the
\* receivers join their FIFOs.
DetailUpdateStep ==
    \E y \in SenderYs :
        /\ \A p \in Receivers : inbox[p] = <<>>
        /\ SCROLL_UPDATE(Sender, y, FALSE)
        /\ inbox' = [p \in Panes |->
                        IF p \in Receivers
                        THEN Enqueue(inbox, out', {"SCROLL_COMMAND"})[p]
                        ELSE inbox[p]]
        /\ UNCHANGED <<paneOpacity, scrollPaneVars, pageVars, rendererVars,
                       extraVars>>

\* The oldest message of a receiver's FIFO, a SCROLL_COMMAND, reaches its
\* preload script.
DetailReceiveStep ==
    \E p \in Receivers :
        /\ inbox[p] # <<>>
        /\ Head(inbox[p]).type = "SCROLL_COMMAND"
        /\ OnScrollCommand(p, Head(inbox[p]).y)
        /\ inbox' = [inbox EXCEPT ![p] = Tail(@)]

\* A same-document navigation of a receiver, to a feed or to a detail page.
DetailNavigateStep ==
    \E p \in Receivers : \E onFeed \in BOOLEAN :
        /\ DidNavigate(p, TRUE, onFeed)
        /\ UNCHANGED notHost

InitDetail == InitAnimate

NextDetail ==
    \/ DetailUpdateStep
    \/ DetailReceiveStep
    \/ DetailNavigateStep
    \/ CommandTimerStep
    \/ AnimateStep
    \/ CooldownStep
    \/ ScrollEventStep
    \/ TickStep

SpecDetail == InitDetail /\ [][NextDetail]_vars

\* C32: a step in which scroll sync writes the position of a pane (the
\* jump of smoothScrollTo or a frame of its animation) is never taken
\* while the host classifies the pane as detail.
SyncNeverMovesDetailPane ==
    [][\A p \in Receivers :
          (/\ lastEvent'.type \in {"pane:commandTimer", "pane:frame"}
           /\ lastEvent'.view = p
           /\ scrollY'[p] # scrollY[p])
          => p \notin viewsOnPost]_vars

\* ------------------------------------------------------------------------
\* SpecDispatch: the host's SCROLL_UPDATE dispatch for any sender, any
\* classification of the panes and any set of live views.
\* ------------------------------------------------------------------------

\* A SCROLL_UPDATE from a live view or from the main window, which runs
\* the same preload script and whose webContents is no view.
DispatchScrollStep ==
    \E sender \in (Panes \ destroyed) \cup {Win} : \E y \in ScrollPositions :
        /\ SCROLL_UPDATE(sender, y, FALSE)
        /\ UNCHANGED notHost

DispatchNavigateStep ==
    \E p \in Panes \ destroyed : \E inPage \in BOOLEAN : \E onFeed \in BOOLEAN :
        /\ DidNavigate(p, inPage, onFeed)
        /\ UNCHANGED notHost

DispatchToggleStep == TOGGLE_SCROLL_SYNC /\ UNCHANGED notHost

DispatchDestroyStep ==
    \E p \in Panes :
        /\ Cardinality(destroyed) < MaxDestroyed
        /\ DestroyView(p)
        /\ UNCHANGED notHost

NextDispatch ==
    \/ DispatchScrollStep
    \/ DispatchNavigateStep
    \/ DispatchToggleStep
    \/ DispatchDestroyStep

SpecDispatch == InitScroll /\ [][NextDispatch]_vars

CommandsTo(p) ==
    Len(SelectSeq(out, LAMBDA m : m.type = "SCROLL_COMMAND" /\ m.to = p))

HasCommand == \E p \in Panes : CommandsTo(p) > 0

SenderOnPost == lastEvent.sender \in viewsOnPost

\* The live panes other than the sender that are not classified detail.
EligibleReceivers ==
    {p \in Panes \ destroyed : p # lastEvent.sender /\ p \notin viewsOnPost}

\* C5: a SCROLL_UPDATE is propagated if and only if scroll sync is enabled
\* and the sender is not classified detail; while scroll sync is disabled
\* no SCROLL_COMMAND is sent at all.
PropagationEligibility ==
    lastEvent.type = "SCROLL_UPDATE" =>
        /\ HasCommand => (scrollSyncEnabled /\ ~SenderOnPost)
        /\ (scrollSyncEnabled /\ ~SenderOnPost /\ EligibleReceivers # {}) => HasCommand
        /\ ~scrollSyncEnabled => out = <<>>

\* A pane classified detail sent a SCROLL_UPDATE while sync was enabled
\* and another pane could have received it.
DetailSenderSuppressed ==
    /\ lastEvent.type = "SCROLL_UPDATE"
    /\ scrollSyncEnabled
    /\ SenderOnPost
    /\ EligibleReceivers # {}

\* C6: the panes that receive SCROLL_COMMAND are exactly the live panes
\* other than the sender that are not classified detail, each receiving
\* the sender's y once.
ReceiversExact ==
    (lastEvent.type = "SCROLL_UPDATE" /\ scrollSyncEnabled /\ ~SenderOnPost) =>
        /\ \A p \in Panes : CommandsTo(p) = IF p \in EligibleReceivers THEN 1 ELSE 0
        /\ \A i \in 1..Len(out) :
              out[i].type = "SCROLL_COMMAND" /\ out[i].y = lastEvent.y

\* A pane's SCROLL_UPDATE was dispatched while another pane was classified
\* detail and a third received it.
DispatchSkipsDetail ==
    /\ lastEvent.type = "SCROLL_UPDATE"
    /\ lastEvent.sender \in Panes
    /\ HasCommand
    /\ viewsOnPost # {}

\* C7: a scroll made by the user in a pane while that pane is classified
\* detail never results in a SCROLL_COMMAND reaching another pane.
NoCommandFromDetailScroll ==
    \A i \in 1..Len(out) :
        out[i].type = "SCROLL_COMMAND" => ~out[i].fromDetail


\* ------------------------------------------------------------------------
\* SpecTeardown: the host's handlers that reach the views, while views are
\* torn down
\* ------------------------------------------------------------------------

TeardownDestroyStep ==
    \E p \in Panes :
        /\ Cardinality(destroyed) < MaxDestroyed
        /\ DestroyView(p)
        /\ UNCHANGED notHost

TeardownReloadStep == RELOAD_ALL /\ UNCHANGED notHost

TeardownScrollStep ==
    \E sender \in Panes \ destroyed : SCROLL_UPDATE(sender, 0, FALSE) /\ UNCHANGED notHost

TeardownSyncStep == TOGGLE_SCROLL_SYNC /\ UNCHANGED notHost

TeardownFocusModeStep == TOGGLE_FOCUS_MODE /\ UNCHANGED notHost

TeardownGrayscaleStep == TOGGLE_GRAYSCALE_MODE /\ UNCHANGED notHost

TeardownFocusViewStep ==
    \E p \in Panes \ destroyed : FOCUS_VIEW(p) /\ UNCHANGED notHost

TeardownBlurStep == WinBlur /\ UNCHANGED notHost

TeardownFinishLoadStep ==
    \E p \in Panes \ destroyed : DidFinishLoad(p) /\ UNCHANGED notHost

TeardownResizeStep == \E b \in WindowSizes : WinResize(b) /\ UNCHANGED notHost

TeardownVisibilityStep == \E index \in Panes : toggleVisibility(index) /\ UNCHANGED notHost

InitTeardown ==
    /\ HostStartup(NoFile)
    /\ PanesStartup
    /\ RendererStartup
    /\ FirstSession

NextTeardown ==
    \/ TeardownDestroyStep
    \/ TeardownReloadStep
    \/ TeardownScrollStep
    \/ TeardownSyncStep
    \/ TeardownFocusModeStep
    \/ TeardownGrayscaleStep
    \/ TeardownFocusViewStep
    \/ TeardownBlurStep
    \/ TeardownFinishLoadStep
    \/ TeardownResizeStep
    \/ TeardownVisibilityStep

SpecTeardown == InitTeardown /\ [][NextTeardown]_vars

\* C36: the host never sends a message to, nor applies an operation on, a
\* pane that has been destroyed (no message of a step is addressed to a
\* pane destroyed before it, and no such pane is given a rectangle), while
\* the live panes still receive what the handler sends to every pane.
HostLeavesDestroyedPanesAlone ==
    [][/\ \A i \in 1..Len(out') : out'[i].to \notin destroyed
       /\ \A p \in destroyed : viewBounds'[p] = viewBounds[p]
       /\ lastEvent'.type \in {"RELOAD_ALL", "TOGGLE_SCROLL_SYNC", "TOGGLE_FOCUS_MODE",
                               "TOGGLE_GRAYSCALE_MODE"} =>
             \A p \in Panes \ destroyed : \E i \in 1..Len(out') : out'[i].to = p]_vars

\* ------------------------------------------------------------------------
\* SpecLayout: the renderer (App and ResizeOverlay), the host's layout
\* handlers and the two FIFOs between them.
\* ------------------------------------------------------------------------

\* getVisibleCount(visibility)
getVisibleCount(vis) == Count(vis)

\* canHide(visibility, index) without the "already hidden" return.
canHide_NoHiddenCase(vis, index) ==
    IF index < 0 \/ index >= Len(vis) THEN FALSE
    ELSE getVisibleCount(vis) > 1

\* canHide(visibility, index)
canHide(vis, index) ==
    IF index < 0 \/ index >= Len(vis) THEN FALSE
    ELSE IF ~vis[index + 1] THEN TRUE
    ELSE getVisibleCount(vis) > 1

MIN_COL_WIDTH == 10

DragThreshold == 5

\* JavaScript arithmetic on a splits array with missing slots.
At(arr, i) == IF i \in 0..(Len(arr) - 1) THEN arr[i + 1] ELSE Undefined

Plus(a, b) == IF IsNumber(a) /\ IsNumber(b) THEN a + b ELSE NaN

MathMin(a, b) == IF ~IsNumber(a) \/ ~IsNumber(b) THEN NaN ELSE IF a < b THEN a ELSE b

MathMax(a, b) == IF ~IsNumber(a) \/ ~IsNumber(b) THEN NaN ELSE IF a > b THEN a ELSE b

\* newSplits[i] = v on a copy of arr; slots skipped over stay empty.
SetAt(arr, i, v) ==
    [k \in 1..(IF i + 1 > Len(arr) THEN i + 1 ELSE Len(arr)) |->
        IF k = i + 1 THEN v ELSE At(arr, k - 1)]

\* handleMouseMove's clamp of the pointer percentage for split dragging.
ClampSplit(prev, dragging, newPercent) ==
    LET lowerBound == IF dragging = 0 THEN Pct(MIN_COL_WIDTH)
                      ELSE Plus(At(prev, dragging - 1), Pct(MIN_COL_WIDTH))
        upperBound == IF dragging = Len(prev) - 1 THEN Pct(100) - Pct(MIN_COL_WIDTH)
                      ELSE Plus(At(prev, dragging + 1), 0 - Pct(MIN_COL_WIDTH))
    IN MathMax(lowerBound, MathMin(upperBound, newPercent))

UpdateLayoutMsg(s) == [type |-> "UPDATE_LAYOUT", splits |-> s]

\* The effects of ResizeOverlay without the render that follows setSplits:
\* the last report is the one of the render that saw the old splits.
OverlayEffects_NoRerender(oldCount, newCount, current) ==
    IF oldCount # newCount
    THEN <<UpdateLayoutMsg(calculateEqualSplits(newCount)),
           UpdateLayoutMsg(current)>>
    ELSE <<UpdateLayoutMsg(current)>>

\* The effects of ResizeOverlay after App rendered with a new handleResize:
\* the visibleCount effect (when the count changed) sets equal splits and
\* reports them, the onResize effect reports the splits of this render,
\* and the render caused by setSplits reports the new splits.
OverlayEffects(oldCount, newCount, current) ==
    IF oldCount # newCount
    THEN <<UpdateLayoutMsg(calculateEqualSplits(newCount)),
           UpdateLayoutMsg(current),
           UpdateLayoutMsg(calculateEqualSplits(newCount))>>
    ELSE <<UpdateLayoutMsg(current)>>

OverlaySplits(oldCount, newCount, current) ==
    IF oldCount # newCount THEN calculateEqualSplits(newCount) ELSE current

\* React mounts App: visibility is [], so visibleCount is 0 and the
\* overlay starts from initialSplits = [].  The overlay's two effects run,
\* then App's effect (listeners, getPlatforms), then the render caused by
\* the first effect's setSplits.
Mount ==
    /\ ~mounted
    /\ mounted' = TRUE
    /\ splits' = calculateEqualSplits(getVisibleCount(visibility))
    /\ fromRenderer' = fromRenderer \o
          <<UpdateLayoutMsg(calculateEqualSplits(getVisibleCount(visibility))),
            UpdateLayoutMsg(splits),
            [type |-> "GET_PLATFORMS"],
            UpdateLayoutMsg(splits')>>
    /\ lastEvent' = Event("renderer:mount")
    /\ out' = <<>>
    /\ UNCHANGED <<hostVars, focusPaneVars, scrollPaneVars, pageVars, extraVars, winLoaded, platforms, order,
                   visibility, isDragging, dragStartX, hasMoved, toRenderer>>

\* The renderer takes the next host message.  Before App's effect has
\* registered the listeners a message finds none and is dropped.
RendererReceive ==
    /\ toRenderer # <<>>
    /\ toRenderer' = Tail(toRenderer)
    /\ lastEvent' = [type |-> "renderer:" \o Head(toRenderer).type]
    /\ out' = <<>>
    /\ LET m == Head(toRenderer) IN
         IF ~mounted
         THEN UNCHANGED <<platforms, order, visibility, splits, fromRenderer>>
         ELSE /\ platforms' = IF m.type = "GET_PLATFORMS:reply" THEN m.platforms
                              ELSE platforms
              /\ order' = IF m.type \in {"GET_PLATFORMS:reply", "PLATFORM_ORDER_CHANGED"}
                          THEN m.order ELSE order
              /\ visibility' = IF m.type \in {"GET_PLATFORMS:reply", "VISIBILITY_CHANGED"}
                               THEN m.visibility ELSE visibility
              /\ splits' = OverlaySplits(getVisibleCount(visibility),
                                         getVisibleCount(visibility'), splits)
              /\ fromRenderer' = fromRenderer \o
                    OverlayEffects(getVisibleCount(visibility),
                                   getVisibleCount(visibility'), splits)
    /\ UNCHANGED <<hostVars, focusPaneVars, scrollPaneVars, pageVars, extraVars, winLoaded, mounted, isDragging,
                   dragStartX, hasMoved>>

\* User actions and the window's load event are taken only while fewer
\* than MaxPending messages are in flight between renderer and host.
FewInFlight == Len(fromRenderer) + Len(toRenderer) < MaxPending

\* The pixel at which a split's handle is drawn (left: split%).
HandleX(split) == (split * contentBounds.width) \div Pct(100)

\* handleMouseDown(index, e) on a rendered handle.
MouseDown(index) ==
    /\ mounted /\ FewInFlight
    /\ getVisibleCount(visibility) > 1
    /\ index \in 0..(Len(splits) - 1)
    /\ IsNumber(splits[index + 1])
    /\ isDragging = Null
    /\ isDragging' = index
    /\ dragStartX' = HandleX(splits[index + 1])
    /\ hasMoved' = FALSE
    /\ lastEvent' = [type |-> "renderer:mousedown", index |-> index]
    /\ out' = <<>>
    /\ lastInput' = "drag"
    /\ UNCHANGED <<hostVars, focusPaneVars, scrollPaneVars, pageVars, quietVars, observerVars, winLoaded, mounted, platforms, order,
                   visibility, splits, toRenderer, fromRenderer>>

\* handleMouseMove(e) with e.clientX = clientX.
MouseMove(clientX) ==
    /\ mounted /\ FewInFlight
    /\ isDragging # Null
    /\ hasMoved' = (hasMoved \/ Abs(clientX - dragStartX) > DragThreshold)
    /\ IF hasMoved'
       THEN /\ splits' = SetAt(splits, isDragging,
                               ClampSplit(splits, isDragging,
                                          (clientX * Pct(100)) \div contentBounds.width))
            /\ fromRenderer' = Append(fromRenderer, UpdateLayoutMsg(splits'))
       ELSE UNCHANGED <<splits, fromRenderer>>
    /\ lastEvent' = [type |-> "renderer:mousemove", clientX |-> clientX]
    /\ out' = <<>>
    /\ lastInput' = "drag"
    /\ UNCHANGED <<hostVars, focusPaneVars, scrollPaneVars, pageVars, quietVars, observerVars, winLoaded, mounted, platforms, order,
                   visibility, isDragging, dragStartX, toRenderer>>

\* handleMouseUp() without the reinterpretation of a click as a reset.
MouseUp_NoReset ==
    /\ mounted
    /\ isDragging # Null
    /\ UNCHANGED <<splits, fromRenderer>>
    /\ isDragging' = Null
    /\ hasMoved' = FALSE
    /\ dragStartX' = 0
    /\ lastEvent' = Event("renderer:mouseup")
    /\ out' = <<>>
    /\ lastInput' = "drag"
    /\ UNCHANGED <<hostVars, focusPaneVars, scrollPaneVars, pageVars, quietVars, observerVars, winLoaded, mounted, platforms, order,
                   visibility, toRenderer>>

\* handleMouseUp().  dragStartXRef keeps the press coordinate in the code;
\* nothing reads it before the next press overwrites it, so the model
\* forgets it here.
MouseUp ==
    /\ mounted
    /\ isDragging # Null
    /\ IF ~hasMoved
       THEN /\ splits' = calculateEqualSplits(getVisibleCount(visibility))
            /\ fromRenderer' = fromRenderer \o
                  <<[type |-> "RESET_LAYOUT"], UpdateLayoutMsg(splits')>>
       ELSE UNCHANGED <<splits, fromRenderer>>
    /\ isDragging' = Null
    /\ hasMoved' = FALSE
    /\ dragStartX' = 0
    /\ lastEvent' = Event("renderer:mouseup")
    /\ out' = <<>>
    /\ lastInput' = "drag"
    /\ UNCHANGED <<hostVars, focusPaneVars, scrollPaneVars, pageVars, quietVars, observerVars, winLoaded, mounted, platforms, order,
                   visibility, toRenderer>>

\* The visibility button of a listed platform is activated; it is
\* disabled when the pane is shown and cannot be hidden.
ClickToggle(index) ==
    /\ mounted /\ FewInFlight
    /\ index \in SeqToSet(order) /\ index \in SeqToSet(platforms)
    /\ ~(~canHide(visibility, index) /\ visibility[index + 1])
    /\ fromRenderer' = Append(fromRenderer, [type |-> "TOGGLE_VISIBILITY", index |-> index])
    /\ lastEvent' = [type |-> "renderer:click", index |-> index]
    /\ out' = <<>>
    /\ lastInput' = "toggle"
    /\ UNCHANGED <<hostVars, focusPaneVars, scrollPaneVars, pageVars, quietVars, observerVars, winLoaded, mounted, platforms, order,
                   visibility, splits, isDragging, dragStartX, hasMoved, toRenderer>>

SendToRenderer ==
    /\ toRenderer' = toRenderer \o SelectSeq(out', LAMBDA m : m.to = Win)
    /\ UNCHANGED <<focusPaneVars, scrollPaneVars, pageVars, extraVars, winLoaded, mounted, platforms, order,
                   visibility, splits, isDragging, dragStartX, hasMoved>>

\* The host handles the renderer's oldest message.
HostReceive ==
    /\ fromRenderer # <<>>
    /\ fromRenderer' = Tail(fromRenderer)
    /\ LET m == Head(fromRenderer) IN
         \/ m.type = "UPDATE_LAYOUT" /\ UPDATE_LAYOUT(m.splits)
         \/ m.type = "RESET_LAYOUT" /\ RESET_LAYOUT
         \/ m.type = "TOGGLE_VISIBILITY" /\ toggleVisibility(m.index)
         \/ m.type = "GET_PLATFORMS" /\ GET_PLATFORMS
    /\ SendToRenderer

\* The main window finished loading, once per session.
WinLoadedStep ==
    /\ ~winLoaded /\ FewInFlight
    /\ winLoaded' = TRUE
    /\ WinDidFinishLoad
    /\ toRenderer' = toRenderer \o out'
    /\ UNCHANGED <<focusPaneVars, scrollPaneVars, pageVars, extraVars, mounted, platforms, order, visibility,
                   splits, isDragging, dragStartX, hasMoved, fromRenderer>>

PointerPercents == {5, 38, 95}

\* Pointer positions: the listed percentages of the window width and, for
\* a press that has not moved yet, a position within the click threshold.
PointerXs == {(pc * contentBounds.width) \div 100 : pc \in PointerPercents}
             \cup (IF hasMoved THEN {} ELSE {dragStartX + DragThreshold - 1})

MountStep == Mount

RendererReceiveStep == RendererReceive

MouseDownStep == \E i \in 0..(N - 2) : MouseDown(i)

MouseMoveStep == \E x \in PointerXs : MouseMove(x)

MouseUpStep == MouseUp

ClickToggleStep == \E i \in Panes : ClickToggle(i)

HostReceiveStep == HostReceive

InitLayout ==
    /\ \E file \in {NoFile,
                    DocFile(NumArr(DefaultOrder), BoolArr(OnlyLastVisible),
                            JBool(TRUE), JBool(FALSE), JUndef)} :
          HostStartup(file)
    /\ PanesStartup
    /\ RendererStartup
    /\ FirstSession

NextLayout ==
    \/ MountStep
    \/ RendererReceiveStep
    \/ MouseDownStep
    \/ MouseMoveStep
    \/ MouseUpStep
    \/ ClickToggleStep
    \/ HostReceiveStep
    \/ WinLoadedStep

SpecLayout == InitLayout /\ [][NextLayout]_vars

Max0(x) == IF x > 0 THEN x ELSE 0

\* C3: in every reachable host state the number of splits held by the
\* host equals max(0, visibleCount - 1).
SplitCountMatchesVisible ==
    Len(currentSplits) = Max0(Count(platformVisibility) - 1)

\* calculateColumnWidths(splits): successive differences of [0, ...splits, 100].
calculateColumnWidths(s) ==
    IF Len(s) = 0 THEN <<Pct(100)>>
    ELSE LET allPositions == <<0>> \o s \o <<Pct(100)>>
         IN [i \in 1..(Len(allPositions) - 1) |->
                Plus(allPositions[i + 1], 0 - allPositions[i])]

\* validateMinimumWidths(splits, minWidth): NaN >= minWidth is false.
validateMinimumWidths(s, minWidth) ==
    \A i \in 1..Len(calculateColumnWidths(s)) :
        /\ IsNumber(calculateColumnWidths(s)[i])
        /\ calculateColumnWidths(s)[i] >= Pct(minWidth)

StrictlyIncreasing(s) ==
    \A i \in 1..(Len(s) - 1) : IsNumber(s[i]) /\ IsNumber(s[i + 1]) /\ s[i] < s[i + 1]

\* C4: the splits are strictly increasing and every column they define is
\* at least the minimum column width wide.
SplitsRespectMinimumWidth ==
    /\ StrictlyIncreasing(splits) /\ validateMinimumWidths(splits, MIN_COL_WIDTH)
    /\ StrictlyIncreasing(currentSplits)
    /\ validateMinimumWidths(currentSplits, MIN_COL_WIDTH)


\* ------------------------------------------------------------------------
\* SpecPointer: pointer-enter in a pane.  The preload script's
\* focusModeEnabled and viewIndex, the host messages that set them, and
\* the FOCUS_VIEW messages the panes send.
\* ------------------------------------------------------------------------

PointerMsgTypes == {"SET_VIEW_INDEX", "FOCUS_MODE_CHANGED"}

SendPointerMsgs ==
    /\ InboxesShort
    /\ inbox' = Enqueue(inbox, out', PointerMsgTypes)

\* A view finishes loading its document; the host sends it its index.
PaneLoadedStep ==
    \E p \in Panes \ destroyed :
        /\ ~paneLoaded[p]
        /\ DidFinishLoad(p)
        /\ SendPointerMsgs
        /\ paneLoaded' = [paneLoaded EXCEPT ![p] = TRUE]
        /\ UNCHANGED <<paneOpacity, scrollPaneVars, paneFocusModeEnabled, paneViewIndex,
                       rendererVars, extraVars>>

PointerToggleStep ==
    /\ TOGGLE_FOCUS_MODE
    /\ SendPointerMsgs
    /\ UNCHANGED <<paneOpacity, scrollPaneVars, pageVars, rendererVars, extraVars>>

\* preload: the listeners for SET_VIEW_INDEX and FOCUS_MODE_CHANGED.
PaneReceive(p) ==
    /\ inbox[p] # <<>>
    /\ lastEvent' = [type |-> "pane:" \o Head(inbox[p]).type, view |-> p]
    /\ out' = <<>>
    /\ LET m == Head(inbox[p]) IN
         \/ /\ m.type = "SET_VIEW_INDEX"
            /\ paneViewIndex' = [paneViewIndex EXCEPT ![p] = m.index]
            /\ inbox' = [inbox EXCEPT ![p] = Tail(inbox[p])]
            /\ UNCHANGED <<paneLoaded, paneFocusModeEnabled>>
         \/ /\ m.type = "FOCUS_MODE_CHANGED"
            /\ paneFocusModeEnabled' = [paneFocusModeEnabled EXCEPT ![p] = m.enabled]
            /\ inbox' = [inbox EXCEPT ![p] = Tail(inbox[p])]
            /\ UNCHANGED <<paneLoaded, paneViewIndex>>
    /\ UNCHANGED <<hostVars, paneOpacity, scrollPaneVars, rendererVars, extraVars>>

\* preload: document.addEventListener('mouseenter')
PanePointerEnter(p) ==
    /\ Len(toHost[p]) < MaxInFlight
    /\ toHost' = IF paneFocusModeEnabled[p] /\ paneViewIndex[p] # Null
                 THEN [toHost EXCEPT ![p] =
                          Append(@, [type |-> "FOCUS_VIEW", viewIndex |-> paneViewIndex[p]])]
                 ELSE toHost
    /\ lastEvent' = [type |-> "pane:mouseenter", view |-> p]
    /\ out' = <<>>
    /\ UNCHANGED <<hostVars, focusPaneVars, scrollY, lastScrollY, scrollDebounceTimer,
                   timerFromDetail, paneScrollSyncEnabled, isProgrammaticScroll,
                   pageVars, rendererVars, extraVars>>

\* The host handles the oldest FOCUS_VIEW of pane p.
HostFocusView(p) ==
    /\ toHost[p] # <<>>
    /\ Head(toHost[p]).type = "FOCUS_VIEW"
    /\ FOCUS_VIEW(Head(toHost[p]).viewIndex)
    /\ toHost' = [toHost EXCEPT ![p] = Tail(toHost[p])]
    /\ UNCHANGED <<focusPaneVars, scrollY, lastScrollY, scrollDebounceTimer,
                   timerFromDetail, paneScrollSyncEnabled, isProgrammaticScroll,
                   pageVars, rendererVars, extraVars>>

PaneReceiveStep == \E p \in Panes : PaneReceive(p)

PointerEnterStep == \E p \in Panes : PanePointerEnter(p)

HostFocusViewStep == \E p \in Panes : HostFocusView(p)

InitPointer ==
    /\ \E file \in PlainFiles : HostStartup(file)
    /\ PanesStartup
    /\ RendererStartup
    /\ FirstSession

NextPointer ==
    \/ PaneLoadedStep
    \/ PointerToggleStep
    \/ PaneReceiveStep
    \/ PointerEnterStep
    \/ HostFocusViewStep

SpecPointer == InitPointer /\ [][NextPointer]_vars

FocusViewInFlight(p) ==
    \E i \in 1..Len(toHost[p]) :
        toHost[p][i].type = "FOCUS_VIEW" /\ toHost[p][i].viewIndex = p

\* C11: when the host's focus mode is enabled and pane i has finished
\* loading (it has been told its index), a pointer-enter inside pane i
\* makes i the host's focused index: after the event i is focused already
\* or a FOCUS_VIEW for i is on its way to the host.
PointerEnterFocuses ==
    (/\ lastEvent.type = "pane:mouseenter"
     /\ focusModeEnabled
     /\ paneLoaded[lastEvent.view]
     /\ paneViewIndex[lastEvent.view] = lastEvent.view)
    => (focusedViewIndex = lastEvent.view \/ FocusViewInFlight(lastEvent.view))


\* ------------------------------------------------------------------------
\* SpecSettings: the settings store on its own.  saveSettings is called
\* with any valid settings object and loadSettings reads whatever document
\* is on disk.
\* ------------------------------------------------------------------------

SettingsFields ==
    {"platformOrder", "platformVisibility", "scrollSyncEnabled", "focusModeEnabled",
     "grayscaleModeEnabled"}

\* Valid settings objects: the order a permutation, one pane visible at
\* least, and the three flags.
ValidSettings ==
    [platformOrder : {DefaultOrder, ReverseOrder},
     platformVisibility : {AllVisible, OnlyLastVisible},
     scrollSyncEnabled : BOOLEAN,
     focusModeEnabled : BOOLEAN,
     grayscaleModeEnabled : BOOLEAN]

hostVarsButFile ==
    <<platformOrder, platformVisibility, currentSplits, viewsOnPost,
      scrollSyncEnabled, focusModeEnabled, grayscaleModeEnabled,
      focusedViewIndex, defaultVisibility, visIsDefaultObject,
      destroyed, viewBounds, contentBounds>>

\* saveSettings(settings)
SaveSettingsCall(settings) ==
    /\ settingsFile' = saveSettings(settingsFile, defaultVisibility, settings)
    /\ savedSettings' = settings
    /\ lastEvent' = Event("saveSettings")
    /\ out' = <<>>
    /\ UNCHANGED <<hostVarsButFile, focusPaneVars, scrollPaneVars, pageVars,
                   rendererVars, sessionVars, libVars, observerVars, animVars, navVars, lastInput, loadedSettings>>

\* loadSettings()
LoadSettingsCall ==
    /\ loadedSettings' = loadSettings(settingsFile, defaultVisibility)
    /\ lastEvent' = Event("loadSettings")
    /\ out' = <<>>
    /\ UNCHANGED <<hostVars, focusPaneVars, scrollPaneVars, pageVars, rendererVars,
                   sessionVars, libVars, observerVars, animVars, navVars, lastInput, savedSettings>>

SaveSettingsStep == \E settings \in ValidSettings : SaveSettingsCall(settings)

LoadSettingsStep == LoadSettingsCall

InitSettings ==
    /\ \E file \in StoredFiles : HostStartup(file)
    /\ PanesStartup
    /\ RendererStartup
    /\ FirstSession

NextSettings ==
    \/ SaveSettingsStep
    \/ LoadSettingsStep

SpecSettings == InitSettings /\ [][NextSettings]_vars

Saved == "platformOrder" \in DOMAIN savedSettings

\* C12: for any valid settings object, saving it and then loading yields
\* an object equal to the input field by field (order, visibility and the
\* scroll-sync, focus-mode and grayscale flags).
SettingsRoundTrip ==
    (lastEvent.type = "loadSettings" /\ Saved) =>
        \A f \in SettingsFields :
            f \in DOMAIN loadedSettings /\ loadedSettings[f] = savedSettings[f]


\* A file that does not exist, cannot be parsed, or holds no valid field.
Unusable(file) ==
    \/ ~file.exists
    \/ ~file.parses
    \/ /\ ~isValidPlatformOrder(file.doc.platformOrder)
       /\ ~isValidVisibility(file.doc.platformVisibility)
       /\ file.doc.scrollSyncEnabled.t # "boolean"
       /\ file.doc.focusModeEnabled.t # "boolean"
       /\ file.doc.grayscaleModeEnabled.t # "boolean"

\* C13: loading from a nonexistent or schema-invalid settings file returns
\* the documented default for every field: order [0..N), all visible,
\* scroll sync on, focus mode off, grayscale off.
DefaultsForUnusableFile ==
    (lastEvent.type = "loadSettings" /\ Unusable(settingsFile)) =>
        /\ loadedSettings.platformOrder = DefaultOrder
        /\ loadedSettings.platformVisibility = AllVisible
        /\ loadedSettings.scrollSyncEnabled = TRUE
        /\ loadedSettings.focusModeEnabled = FALSE
        /\ "grayscaleModeEnabled" \in DOMAIN loadedSettings
        /\ loadedSettings.grayscaleModeEnabled = FALSE

\* A stored value is a permutation of [0,N) / a length-N boolean array
\* with a true entry / a boolean.
StoredPermutation(v) ==
    /\ v.t = "array"
    /\ \A i \in 1..Len(v.a) : v.a[i].t = "number"
    /\ isValidPermutation(NumsOf(v), N)

StoredVisibility(v) ==
    /\ v.t = "array"
    /\ Len(v.a) = N
    /\ \A i \in 1..Len(v.a) : v.a[i].t = "boolean"
    /\ Count(BoolsOf(v)) >= 1

MutationEvents ==
    {"REORDER_PLATFORMS", "TOGGLE_VISIBILITY", "TOGGLE_SCROLL_SYNC",
     "TOGGLE_FOCUS_MODE", "TOGGLE_GRAYSCALE_MODE"}

\* What app.whenReady assigns from loadSettings() when the host starts
\* from the given file; savedSettings.grayscaleModeEnabled is undefined.
RestoredState(file) ==
    [platformOrder |-> loadSettings(file, AllVisible).platformOrder,
     platformVisibility |-> loadSettings(file, AllVisible).platformVisibility,
     scrollSyncEnabled |-> loadSettings(file, AllVisible).scrollSyncEnabled,
     focusModeEnabled |-> loadSettings(file, AllVisible).focusModeEnabled,
     grayscaleModeEnabled |-> JUndef]

\* C15: after the host has handled a reorder, a visibility toggle or a
\* toggle of the scroll-sync, focus-mode or grayscale flag, the persisted
\* document holds the order, visibility and three flags of the host's
\* memory, so a restart restores exactly the state in effect.
PersistedMatchesMemory ==
    lastEvent.type \in MutationEvents =>
        /\ RestoredState(settingsFile).platformOrder = platformOrder
        /\ RestoredState(settingsFile).platformVisibility = platformVisibility
        /\ RestoredState(settingsFile).scrollSyncEnabled = scrollSyncEnabled
        /\ RestoredState(settingsFile).focusModeEnabled = focusModeEnabled
        /\ RestoredState(settingsFile).grayscaleModeEnabled = grayscaleModeEnabled

\* ------------------------------------------------------------------------
\* SpecRestart: resizing columns, quitting and starting the application again
\* ------------------------------------------------------------------------

MaxRestarts == 1

\* The renderer is mounted, no drag is in progress, no message is in flight
\* between the renderer and the host, and the host holds the renderer's
\* splits.
Settled ==
    /\ mounted
    /\ isDragging = Null
    /\ toRenderer = <<>>
    /\ fromRenderer = <<>>
    /\ currentSplits = splits

\* The application is quit and started again: a new host process runs
\* app.whenReady with the settings file the last session left, every pane
\* and the main window load anew.
Restart ==
    /\ restarts < MaxRestarts
    /\ restarts' = restarts + 1
    /\ splitsAtClose' = currentSplits
    \* host: module-level initialisers, then app.whenReady
    /\ settingsFile' = settingsFile
    /\ defaultVisibility' = AllVisible
    /\ visIsDefaultObject' = loadSettings(settingsFile, AllVisible).visIsDefaultObject
    /\ platformOrder' = RestoredState(settingsFile).platformOrder
    /\ platformVisibility' = RestoredState(settingsFile).platformVisibility
    /\ scrollSyncEnabled' = RestoredState(settingsFile).scrollSyncEnabled
    /\ focusModeEnabled' = RestoredState(settingsFile).focusModeEnabled
    /\ grayscaleModeEnabled' = RestoredState(settingsFile).grayscaleModeEnabled
    /\ currentSplits' = recalculateSplits(platformVisibility')
    /\ focusedViewIndex' = Null
    /\ viewsOnPost' = {}
    /\ destroyed' = {}
    /\ contentBounds' = WideBounds
    /\ viewBounds' = updateLayout(platformOrder', platformVisibility', currentSplits',
                                  contentBounds')
    \* panes: new documents, new preload scripts
    /\ paneOpacity' = [p \in Panes |-> OpacityFull]
    /\ inbox' = [p \in Panes |-> <<>>]
    /\ scrollY' = [p \in Panes |-> 0]
    /\ lastScrollY' = [p \in Panes |-> 0]
    /\ scrollDebounceTimer' = [p \in Panes |-> FALSE]
    /\ timerFromDetail' = [p \in Panes |-> FALSE]
    /\ paneScrollSyncEnabled' = [p \in Panes |-> TRUE]
    /\ isProgrammaticScroll' = [p \in Panes |-> FALSE]
    /\ toHost' = [p \in Panes |-> <<>>]
    /\ paneLoaded' = [p \in Panes |-> FALSE]
    /\ paneFocusModeEnabled' = [p \in Panes |-> FALSE]
    /\ paneViewIndex' = [p \in Panes |-> Null]
    /\ paneUrl' = [p \in Panes |-> PlatformUrl(p)]
    /\ navigating' = [p \in Panes |-> NoUrl]
    /\ timerAge' = [p \in Panes |-> 0]
    /\ quiet' = [p \in Panes |-> 0]
    /\ burst' = [p \in Panes |-> 0]
    /\ smoothScrollAnimationId' = [p \in Panes |-> Null]
    /\ smoothScrollTarget' = [p \in Panes |-> Null]
    /\ scrollCommandDebounceTimer' = [p \in Panes |-> Null]
    /\ frames' = [p \in Panes |-> {}]
    /\ cooldowns' = [p \in Panes |-> 0]
    /\ commandTimerAge' = [p \in Panes |-> 0]
    /\ scrollEventPending' = [p \in Panes |-> FALSE]
    /\ lastCommand' = [p \in Panes |-> Null]
    \* renderer: the main window loads index.html again
    /\ winLoaded' = FALSE
    /\ mounted' = FALSE
    /\ platforms' = <<>>
    /\ order' = <<>>
    /\ visibility' = <<>>
    /\ splits' = <<>>
    /\ isDragging' = Null
    /\ dragStartX' = 0
    /\ hasMoved' = FALSE
    /\ toRenderer' = <<>>
    /\ fromRenderer' = <<>>
    /\ lastInput' = "none"
    /\ lastEvent' = [type |-> "restart", settled |-> Settled]
    /\ out' = <<>>
    /\ UNCHANGED <<storeVars, libVars>>

RestartStep == Restart

InitRestart ==
    /\ HostStartup(NoFile)
    /\ PanesStartup
    /\ RendererStartup
    /\ FirstSession

NextRestart ==
    \/ MountStep
    \/ RendererReceiveStep
    \/ MouseDownStep
    \/ MouseMoveStep
    \/ MouseUpStep
    \/ HostReceiveStep
    \/ WinLoadedStep
    \/ RestartStep

SpecRestart == InitRestart /\ [][NextRestart]_vars

\* C16: column sizes set by resizing persist between sessions: right after
\* a restart the host's splits are the splits it held when the application
\* was quit with nothing pending.
SplitsPersist ==
    (lastEvent.type = "restart" /\ lastEvent.settled) => currentSplits = splitsAtClose

\* ------------------------------------------------------------------------
\* Visibility toggles and the host's splits (SpecLayout)
\* ------------------------------------------------------------------------

\* No message is in flight between the renderer and the host.
NothingInFlight ==
    /\ toRenderer = <<>>
    /\ fromRenderer = <<>>

\* C17: once a visibility toggle, the user's last input, and every message
\* it caused have been handled, the host's splits are the equal splits for
\* the new number of visible panes.
ToggleSettlesToEqualSplits ==
    (lastInput = "toggle" /\ NothingInFlight) =>
        currentSplits = calculateEqualSplits(Count(platformVisibility))

\* One of three panes was hidden, and everything the toggle caused has been
\* handled by the renderer and the host.
HiddenPaneSettled ==
    /\ lastInput = "toggle"
    /\ NothingInFlight
    /\ Count(platformVisibility) = 2
    /\ visibility = platformVisibility
    /\ splits = currentSplits

\* ------------------------------------------------------------------------
\* Dragging a split handle (SpecLayout)
\* ------------------------------------------------------------------------

\* The pointer percentage of a mousemove at clientX.
PointerPercent(clientX) == (clientX * Pct(100)) \div contentBounds.width

\* The least and greatest position split i of s may take: its neighbours
\* plus or minus the minimum width, 10 and 90 where there is no neighbour.
LowestFor(s, i) ==
    IF i - 1 \in 0..(Len(s) - 1) THEN s[i] + Pct(MIN_COL_WIDTH) ELSE Pct(MIN_COL_WIDTH)

HighestFor(s, i) ==
    IF i + 1 \in 0..(Len(s) - 1) THEN s[i + 2] - Pct(MIN_COL_WIDTH)
    ELSE Pct(100) - Pct(MIN_COL_WIDTH)

Clamped(p, lo, hi) == IF p < lo THEN lo ELSE IF p > hi THEN hi ELSE p

\* C18: during a drag of split i, a pointer move past the threshold writes
\* to split i the pointer percentage clamped to [left neighbour + 10,
\* right neighbour - 10] (10 and 90 for a missing neighbour), a percentage
\* inside the interval unchanged, and modifies no other split.
DragWritesClampedPosition ==
    [][(lastEvent'.type = "renderer:mousemove" /\ hasMoved') =>
          /\ DOMAIN splits' = DOMAIN splits
          /\ \A k \in DOMAIN splits :
                splits'[k] = IF k = isDragging + 1
                             THEN Clamped(PointerPercent(lastEvent'.clientX),
                                          LowestFor(splits, isDragging),
                                          HighestFor(splits, isDragging))
                             ELSE splits[k]]_vars

\* ------------------------------------------------------------------------
\* Releasing a split handle (SpecLayout)
\* ------------------------------------------------------------------------

ResetLayoutMsg == [type |-> "RESET_LAYOUT"]

\* The messages the renderer sent during the step.
SentNow == SubSeq(fromRenderer', Len(fromRenderer) + 1, Len(fromRenderer'))

\* C19: on release of a split handle, if no pointer move of the gesture
\* crossed the threshold the splits become the equal splits for the visible
\* count and RESET_LAYOUT is sent; if one did, the splits stay as the drag
\* left them and no reset is sent; either way no drag is in progress
\* afterwards.
ReleaseResetsOrCommits ==
    [][lastEvent'.type = "renderer:mouseup" =>
          /\ isDragging # Null
          /\ isDragging' = Null
          /\ IF hasMoved
             THEN /\ splits' = splits
                  /\ ResetLayoutMsg \notin SeqToSet(SentNow)
             ELSE /\ splits' = calculateEqualSplits(getVisibleCount(visibility))
                  /\ ResetLayoutMsg \in SeqToSet(SentNow)]_vars

\* A handle was pressed and released without crossing the threshold while
\* the host still held splits set by an earlier drag: the reset is on its
\* way to the host.
ClickResetsDraggedLayout ==
    /\ lastEvent.type = "renderer:mouseup"
    /\ isDragging = Null
    /\ splits = calculateEqualSplits(getVisibleCount(visibility))
    /\ Len(fromRenderer) > 0 /\ Head(fromRenderer) = ResetLayoutMsg
    /\ currentSplits # splits

\* ------------------------------------------------------------------------
\* The rectangles applied by the host (SpecLayout)
\* ------------------------------------------------------------------------

\* C35: after the host handles a window resize, a visibility toggle, a
\* reorder, UPDATE_LAYOUT or RESET_LAYOUT, the rectangles applied to the
\* panes are those computed from the current order, visibility, splits and
\* container size: every pane outside the visible set has the zero-size
\* rectangle and every visible pane has a rectangle of non-zero width at
\* the position given by its place in the display order.
AppliedRectanglesMatchLayout ==
    lastEvent.type \in {"resize", "TOGGLE_VISIBILITY", "REORDER_PLATFORMS",
                        "UPDATE_LAYOUT", "RESET_LAYOUT"} =>
        LET visibleIndices == getVisiblePlatformIndices(platformOrder, platformVisibility)
            px == splitPixels(currentSplits, contentBounds.width)
        IN  /\ viewBounds = updateLayout(platformOrder, platformVisibility,
                                         currentSplits, contentBounds)
            /\ \A v \in Panes \ SeqToSet(visibleIndices) : viewBounds[v] = HiddenRect
            /\ \A pos \in 1..Len(visibleIndices) :
                  LET rect == viewBounds[visibleIndices[pos]]
                  IN  /\ IsNumber(rect.width) /\ rect.width > 0
                      /\ IsNumber(PixelAt(px, pos))
                      /\ rect.x = (PixelAt(px, pos) \div Pct(100))
                                     + (IF pos = 1 THEN 0 ELSE gapSize)

\* C40: the host and the renderer converge on the same splits: once the
\* renderer has mounted and no UPDATE_LAYOUT, RESET_LAYOUT, VISIBILITY_CHANGED
\* or other message is in flight between them, after any drags, click-resets
\* and visibility toggles, the splits the host uses for geometry are the
\* splits the resize overlay holds.
HostAndOverlayConverge ==
    (mounted /\ NothingInFlight) => currentSplits = splits

\* A drag moved a split away from the equal position, was released, and
\* every message it caused has been handled.
CommittedDragSettled ==
    /\ mounted
    /\ NothingInFlight
    /\ lastInput = "drag"
    /\ isDragging = Null
    /\ splits # calculateEqualSplits(getVisibleCount(visibility))
    /\ Len(splits) = N - 1
    /\ currentSplits = splits

\* C39: while the resize controller is dragging, the dragged index is a
\* valid index into the overlay's splits, whatever visibility changes arrive
\* between the pointer events, so that no pointer move writes a position
\* outside the sequence or one that is not a number.
DragIndexStaysValid ==
    /\ isDragging # Null => isDragging \in 0..(Len(splits) - 1)
    /\ Len(splits) = Max0(getVisibleCount(visibility) - 1)
    /\ \A i \in 1..Len(splits) : IsNumber(splits[i])

\* Two rectangles share a horizontal stretch.
OverlapX(r1, r2) == r1.x < r2.x + r2.width /\ r2.x < r1.x + r1.width

\* The splits are as many as count visible panes need and keep the minimum
\* column width.
SplitsFit(s, count) ==
    /\ Len(s) = Max0(count - 1)
    /\ validateMinimumWidths(s, MIN_COL_WIDTH)

\* The rectangles of the panes in shown are pairwise disjoint horizontally
\* and inside a container of the given width.
DisjointWithin(rects, shown, width) ==
    /\ \A v \in shown : \A w \in shown \ {v} : ~OverlapX(rects[v], rects[w])
    /\ \A v \in shown : rects[v].x >= 0 /\ rects[v].x + rects[v].width <= width

\* C38 as stated: for every container width and every splits sequence that
\* satisfies the minimum-column-width invariant, the rectangles computed
\* for two different visible panes never overlap horizontally and every
\* visible pane's rectangle lies within the container's width.
VisibleRectanglesDisjoint ==
    LET visibleIndices == getVisiblePlatformIndices(platformOrder, platformVisibility)
    IN  SplitsFit(currentSplits, Len(visibleIndices)) =>
            DisjointWithin(updateLayout(platformOrder, platformVisibility, currentSplits,
                                        contentBounds),
                           SeqToSet(visibleIndices), contentBounds.width)

\* Every column between two boundaries of px is wide enough for the
\* rendered floor and a gap on either side.
ColumnsHoldFloor(px) ==
    \A i \in 1..(Len(px) - 1) :
        (px[i + 1] - px[i]) \div Pct(100) >= MinRenderedWidth + 2 * gapSize

\* C38: for every container width and every splits sequence that satisfies
\* the minimum-column-width invariant and leaves every column at least the
\* rendered floor plus two gaps wide, the rectangles computed for two
\* different visible panes never overlap horizontally and every visible
\* pane's rectangle lies within the container's width.
WideColumnsAreDisjoint ==
    LET visibleIndices == getVisiblePlatformIndices(platformOrder, platformVisibility)
    IN  (/\ SplitsFit(currentSplits, Len(visibleIndices))
         /\ ColumnsHoldFloor(splitPixels(currentSplits, contentBounds.width))) =>
            DisjointWithin(updateLayout(platformOrder, platformVisibility, currentSplits,
                                        contentBounds),
                           SeqToSet(visibleIndices), contentBounds.width)

\* The narrow window shows every pane in columns that hold the floor.
NarrowWindowShowsAllPanes ==
    /\ contentBounds = NarrowBounds
    /\ Len(getVisiblePlatformIndices(platformOrder, platformVisibility)) = N
    /\ SplitsFit(currentSplits, N)
    /\ ColumnsHoldFloor(splitPixels(currentSplits, contentBounds.width))
    /\ viewBounds = updateLayout(platformOrder, platformVisibility, currentSplits,
                                 contentBounds)

\* ------------------------------------------------------------------------
\* SpecOrigin: navigation inside the panes
\* ------------------------------------------------------------------------

\* shell, as the target of a call recorded in out.
Shell == N + 1

\* The host of a site that is none of the platforms.
OtherHost == N

OpenExternalMsg(url) == [to |-> Shell, type |-> "openExternal", url |-> url]

\* webContents.setWindowOpenHandler(({ url }) => ...): the request is
\* always denied; a URL of another origin is handed to shell.openExternal.
WindowOpen(p, url) ==
    /\ lastEvent' = [type |-> "window-open", view |-> p, url |-> url]
    /\ out' = IF Parses(url) /\ URLOrigin(url) # platformOrigin(p)
              THEN <<OpenExternalMsg(url)>> ELSE <<>>
    /\ UNCHANGED <<hostVars, navVars>>

\* view.webContents.on('will-navigate', (event, url) => ...): a URL of
\* another origin is prevented and handed to shell.openExternal; any other
\* navigation starts.
WillNavigate(p, url) ==
    /\ lastEvent' = [type |-> "will-navigate", view |-> p, url |-> url]
    /\ IF Parses(url) /\ URLOrigin(url) # platformOrigin(p)
       THEN /\ out' = <<OpenExternalMsg(url)>>
            /\ UNCHANGED navigating
       ELSE /\ out' = <<>>
            /\ navigating' = [navigating EXCEPT ![p] = url]
    /\ UNCHANGED <<hostVars, paneUrl>>

\* The document a request for url ends at: the site's "/out" path answers
\* with a redirect to the other site.  A server-side redirect raises
\* will-redirect, not will-navigate, and the host registers no handler
\* for it.
Landing(url) == IF url.path = OutPath THEN Url("https", OtherHost, RootPath) ELSE url

\* The started navigation commits: the pane shows the document the request
\* ended at, with a new preload script, and did-navigate is raised.
CommitNavigation(p) ==
    /\ navigating[p] # NoUrl
    /\ paneUrl' = [paneUrl EXCEPT ![p] = Landing(navigating[p])]
    /\ navigating' = [navigating EXCEPT ![p] = NoUrl]
    /\ DidNavigate(p, FALSE, isOnFeedPage(paneUrl'[p], p))
    /\ scrollY' = [scrollY EXCEPT ![p] = 0]
    /\ lastScrollY' = [lastScrollY EXCEPT ![p] = 0]
    /\ scrollDebounceTimer' = [scrollDebounceTimer EXCEPT ![p] = FALSE]
    /\ timerFromDetail' = [timerFromDetail EXCEPT ![p] = FALSE]
    /\ paneScrollSyncEnabled' = [paneScrollSyncEnabled EXCEPT ![p] = TRUE]
    /\ isProgrammaticScroll' = [isProgrammaticScroll EXCEPT ![p] = FALSE]
    /\ UNCHANGED <<focusPaneVars, toHost, pageVars, rendererVars, storeVars,
                   sessionVars, libVars, observerVars, animVars, lastInput>>

\* history.pushState in the pane: the path changes within the document and
\* did-navigate-in-page is raised.
PushState(p, path) ==
    /\ paneUrl[p].path # path
    /\ paneUrl' = [paneUrl EXCEPT ![p].path = path]
    /\ DidNavigate(p, TRUE, isOnFeedPage(paneUrl'[p], p))
    /\ UNCHANGED <<focusPaneVars, scrollPaneVars, pageVars, rendererVars, storeVars,
                   sessionVars, libVars, observerVars, animVars, lastInput, navigating>>

\* Link and window.open targets found in a pane's page.
LinkTargets(p) ==
    {Url("https", p, RootPath), Url("https", p, PostPath), Url("https", p, OutPath),
     Url("http", p, RootPath), Url("https", OtherHost, RootPath)}

OpenTargets(p) == LinkTargets(p) \cup {Url("about", Null, <<"blank">>), Url("", Null, PostPath)}

\* The panes in which the user follows links.
NumNavigators == 2

Navigators == 0..(NumNavigators - 1)

notNav ==
    <<focusPaneVars, scrollPaneVars, pageVars, rendererVars, storeVars, sessionVars, libVars,
      lastInput, observerVars, animVars>>

WindowOpenStep ==
    \E p \in Navigators : \E url \in OpenTargets(p) : WindowOpen(p, url) /\ UNCHANGED notNav

WillNavigateStep ==
    \E p \in Navigators : \E url \in LinkTargets(p) : WillNavigate(p, url) /\ UNCHANGED notNav

CommitNavigationStep == \E p \in Navigators : CommitNavigation(p)

PushStateStep == \E p \in Navigators : \E path \in {RootPath, PostPath} : PushState(p, path)

InitOrigin ==
    /\ HostStartup(NoFile)
    /\ PanesStartup
    /\ RendererStartup
    /\ FirstSession

NextOrigin ==
    \/ WindowOpenStep
    \/ WillNavigateStep
    \/ CommitNavigationStep
    \/ PushStateStep

SpecOrigin == InitOrigin /\ [][NextOrigin]_vars

\* Every link navigation and new-window request to another origin leaves
\* the pane as it is and hands the URL to the external opener.
CrossOriginHandedOver ==
    [][(/\ lastEvent'.type \in {"will-navigate", "window-open"}
        /\ Parses(lastEvent'.url)
        /\ URLOrigin(lastEvent'.url) # platformOrigin(lastEvent'.view)) =>
          /\ paneUrl' = paneUrl
          /\ navigating' = navigating
          /\ out' = <<OpenExternalMsg(lastEvent'.url)>>]_vars

\* C20: no pane ever shows a URL whose origin differs from the origin of
\* its platform, the one it was bound to at startup (navigations and
\* new-window requests to another origin being blocked and handed to the
\* external opener, as CrossOriginHandedOver states).
PaneStaysOnBoundOrigin ==
    \A p \in Panes : URLOrigin(paneUrl[p]) = platformOrigin(p)

\* C37: a link click or a new-window request to the pane's own origin
\* proceeds inside the pane: the navigation to the requested URL starts in
\* the pane and nothing is handed to the external opener.
SameOriginProceedsInPane ==
    [][(/\ lastEvent'.type \in {"will-navigate", "window-open"}
        /\ Parses(lastEvent'.url)
        /\ URLOrigin(lastEvent'.url) = platformOrigin(lastEvent'.view)) =>
          /\ out' = <<>>
          /\ navigating'[lastEvent'.view] = lastEvent'.url]_vars

\* C33: all panes start as feed, and after every navigation event in a
\* pane, full or same-document, the pane is recorded as on a detail page
\* exactly when isOnFeedPage maps the URL navigated to and the pane's
\* platform to detail, while the record of every other pane is unchanged.
NavigationRecordsClassification ==
    /\ viewsOnPost = {}
    /\ [][lastEvent'.type = "did-navigate" =>
            LET p == lastEvent'.view
            IN  /\ p \in viewsOnPost' <=> ~isOnFeedPage(paneUrl'[p], p)
                /\ \A q \in Panes \ {p} : q \in viewsOnPost' <=> q \in viewsOnPost]_vars

\* A same-document navigation took one pane back to its feed while
\* another pane stays recorded on a detail page.
BackToFeedBesideDetailPane ==
    /\ lastEvent.type = "did-navigate"
    /\ lastEvent.inPage
    /\ isOnFeedPage(paneUrl[lastEvent.view], lastEvent.view)
    /\ viewsOnPost # {}

\* ------------------------------------------------------------------------
\* Rejected visibility toggles (Spec)
\* ------------------------------------------------------------------------

\* The toggle aims outside [0, N) or at the only visible pane.
ToggleRejected(vis, index) ==
    \/ index \notin Panes
    \/ /\ vis[index + 1]
       /\ \A j \in Panes : j # index => ~vis[j + 1]

\* C21: a TOGGLE_VISIBILITY that would hide the only visible pane, or
\* whose index is out of range, changes nothing at the host: visibility,
\* splits, pane rectangles and the settings file stay as they are and
\* nothing is sent.
RejectedToggleIsNoOp ==
    [][(/\ lastEvent'.type = "TOGGLE_VISIBILITY"
        /\ ToggleRejected(platformVisibility, lastEvent'.index)) =>
          /\ platformVisibility' = platformVisibility
          /\ currentSplits' = currentSplits
          /\ viewBounds' = viewBounds
          /\ settingsFile' = settingsFile
          /\ out' = <<>>]_vars

\* The only visible pane was the target of a toggle while the host held
\* splits that are not the equal splits.
SoleVisibleToggledWithCustomSplits ==
    /\ lastEvent.type = "TOGGLE_VISIBILITY"
    /\ lastEvent.index \in Panes
    /\ platformVisibility[lastEvent.index + 1]
    /\ Count(platformVisibility) = 1
    /\ currentSplits # calculateEqualSplits(1)

\* ------------------------------------------------------------------------
\* SpecFeedState: the pure functions of the renderer's feedState.ts
\* ------------------------------------------------------------------------

MaxVisLen == 3

\* boolean[] arguments: every array of at most MaxVisLen flags.
VisArrays == UNION {[1..n -> BOOLEAN] : n \in 0..MaxVisLen}

\* index arguments: inside and outside every array.
IndexInputs == (0 - 1)..MaxVisLen

\* toggleVisibility(visibility, index) without the canHide test.
feedStateToggleVisibility_NoFloor(vis, index) ==
    IF index < 0 \/ index >= Len(vis) THEN vis
    ELSE [vis EXCEPT ![index + 1] = ~vis[index + 1]]

\* toggleVisibility(visibility, index) of feedState.ts.
feedStateToggleVisibility(vis, index) ==
    IF index < 0 \/ index >= Len(vis) THEN vis
    ELSE IF vis[index + 1] /\ ~canHide(vis, index) THEN vis
    ELSE [vis EXCEPT ![index + 1] = ~vis[index + 1]]

\* calculateEqualSplits(visibleCount) of feedState.ts with the loop started
\* at 0.
feedStateCalculateEqualSplits_FromZero(visibleCount) ==
    IF visibleCount <= 1 THEN <<>>
    ELSE [i \in 1..visibleCount |-> ((i - 1) * Pct(100)) \div visibleCount]

\* calculateEqualSplits(visibleCount) of feedState.ts, the renderer's copy:
\* (i / visibleCount) * 100 pushed for i = 1 .. visibleCount - 1.
feedStateCalculateEqualSplits(visibleCount) ==
    IF visibleCount <= 1 THEN <<>>
    ELSE [i \in 1..(visibleCount - 1) |-> (i * Pct(100)) \div visibleCount]

\* visibleCount arguments.
CountInputs == (0 - 1)..N

notLib ==
    <<hostVars, focusPaneVars, scrollPaneVars, pageVars, rendererVars, storeVars,
      sessionVars, navVars, lastInput, observerVars, animVars>>

CallToggleVisibility ==
    \E vis \in VisArrays : \E index \in IndexInputs :
        /\ pureCall' = [NoCall EXCEPT !.fn = "toggleVisibility", !.vis = vis,
                                      !.index = index,
                                      !.flags = feedStateToggleVisibility(vis, index)]
        /\ lastEvent' = Event("feedState.toggleVisibility")
        /\ out' = <<>>
        /\ UNCHANGED notLib

CallCanHide ==
    \E vis \in VisArrays : \E index \in IndexInputs :
        /\ pureCall' = [NoCall EXCEPT !.fn = "canHide", !.vis = vis, !.index = index,
                                      !.yes = canHide(vis, index)]
        /\ lastEvent' = Event("feedState.canHide")
        /\ out' = <<>>
        /\ UNCHANGED notLib

CallCalculateEqualSplits ==
    \E k \in CountInputs :
        /\ pureCall' = [NoCall EXCEPT !.fn = "calculateEqualSplits", !.count = k,
                                      !.nums = feedStateCalculateEqualSplits(k),
                                      !.hostNums = calculateEqualSplits(k)]
        /\ lastEvent' = Event("feedState.calculateEqualSplits")
        /\ out' = <<>>
        /\ UNCHANGED notLib

InitFeedState ==
    /\ HostStartup(NoFile)
    /\ PanesStartup
    /\ RendererStartup
    /\ FirstSession

NextFeedState ==
    \/ CallToggleVisibility
    \/ CallCanHide
    \/ CallCalculateEqualSplits

SpecFeedState == InitFeedState /\ [][NextFeedState]_vars

SomeTrue(flags) == \E i \in 1..Len(flags) : flags[i]

\* index is the only position of vis that holds true.
SoleTrueAt(vis, index) ==
    /\ index \in 0..(Len(vis) - 1)
    /\ \A i \in 1..Len(vis) : vis[i] <=> (i = index + 1)

\* C22 as stated: for all visibility arrays and any index, toggleVisibility
\* never returns an all-false array, and when the input has exactly one
\* true, at the index, the output equals the input.
ToggleNeverAllFalse ==
    pureCall.fn = "toggleVisibility" =>
        /\ SomeTrue(pureCall.flags)
        /\ SoleTrueAt(pureCall.vis, pureCall.index) => pureCall.flags = pureCall.vis

\* C22 amended: for every visibility array with at least one true and any
\* index, toggleVisibility never returns an all-false array, and when the
\* input has exactly one true, at the index, the output equals the input.
ToggleKeepsOneTrue ==
    (pureCall.fn = "toggleVisibility" /\ SomeTrue(pureCall.vis)) =>
        /\ SomeTrue(pureCall.flags)
        /\ SoleTrueAt(pureCall.vis, pureCall.index) => pureCall.flags = pureCall.vis

\* toggleVisibility was applied to the only true flag of an array of three.
SoleTrueToggled ==
    /\ pureCall.fn = "toggleVisibility"
    /\ Len(pureCall.vis) = 3
    /\ SoleTrueAt(pureCall.vis, pureCall.index)

\* C23 as stated: for every visibility array and every index, canHide
\* returns false if and only if the index is the sole visible pane, and
\* true in every other case.
CanHideFalseIffSoleVisible ==
    pureCall.fn = "canHide" =>
        (pureCall.yes <=> ~SoleTrueAt(pureCall.vis, pureCall.index))

\* C23 amended: for every visibility array and every index inside it,
\* canHide returns false if and only if the index is the sole visible
\* pane, and true in every other case, also when the pane is hidden.
CanHideFalseIffSoleVisibleInside ==
    (pureCall.fn = "canHide" /\ pureCall.index \in 0..(Len(pureCall.vis) - 1)) =>
        (pureCall.yes <=> ~SoleTrueAt(pureCall.vis, pureCall.index))

\* canHide was asked about a hidden pane while only one other pane was
\* visible.
HiddenPaneAsked ==
    /\ pureCall.fn = "canHide"
    /\ pureCall.index \in 0..(Len(pureCall.vis) - 1)
    /\ ~pureCall.vis[pureCall.index + 1]
    /\ Count(pureCall.vis) = 1

\* C24: for every visible count k, calculateEqualSplits(k) returns exactly
\* max(0, k - 1) values, the i-th being 100 * i / k, so the empty sequence
\* for k <= 1, and the host's copy returns what the renderer's copy returns.
EqualSplitsShape ==
    pureCall.fn = "calculateEqualSplits" =>
        /\ Len(pureCall.nums) = Max0(pureCall.count - 1)
        /\ \A i \in 1..Len(pureCall.nums) :
              pureCall.nums[i] * pureCall.count = Pct(100) * i
        /\ pureCall.count <= 1 => pureCall.nums = <<>>
        /\ pureCall.hostNums = pureCall.nums

\* Both copies were applied to the greatest visible count.
EqualSplitsOfAll ==
    /\ pureCall.fn = "calculateEqualSplits"
    /\ pureCall.count = N
    /\ Len(pureCall.nums) = N - 1

\* ------------------------------------------------------------------------
\* SpecClassifier: isOnFeedPage as a function of its arguments
\* ------------------------------------------------------------------------

\* What follows an auth prefix: nothing, a deeper path, or more letters of
\* the same word.
AuthTails == {<<>>, <<"/", "x">>, <<"x">>}

ClassifierPaths ==
    {authPath \o tail : authPath \in authPaths, tail \in AuthTails}
    \cup {<<"/", "LOGIN">>, <<"/", "Uas", "/", "x">>, <<"/", "i", "/", "flow", "/", "login">>,
          <<"/", "x", "/", "login">>, <<"/", "auth", "wall">>,
          RootPath, FeedPath, PostPath, <<"/", "home">>, <<"/", "HOME">>, <<"/", "x">>,
          <<"/", "x", "/", "post", "/", "1">>, <<"/", "x", "/", "Post", "/", "2">>,
          <<"/", "t", "/", "1">>, <<"/", "t", "/", "x">>, <<"/", "r", "/", "x">>,
          <<"/", "r", "/", "x", "/", "comments", "/", "1">>, <<"/", "account", "/", "x">>}

\* Strings handed to isOnFeedPage: absolute URLs, and the same paths without
\* a scheme, which new URL() rejects.
ClassifierUrls == {Url(scheme, 0, path) : scheme \in {"https", ""}, path \in ClassifierPaths}

\* The names of PLATFORMS and one name that is none of them.
ClassifierNames == 0..NumPlatforms

CallIsOnFeedPage ==
    \E url \in ClassifierUrls : \E name \in ClassifierNames :
        /\ pureCall' = [NoCall EXCEPT !.fn = "isOnFeedPage", !.url = url, !.index = name,
                                      !.threw = isOnFeedPageOutcome(url, name).threw,
                                      !.yes = isOnFeedPage(url, name)]
        /\ lastEvent' = Event("isOnFeedPage")
        /\ out' = <<>>
        /\ UNCHANGED notLib

InitClassifier ==
    /\ HostStartup(NoFile)
    /\ PanesStartup
    /\ RendererStartup
    /\ FirstSession

NextClassifier == CallIsOnFeedPage

SpecClassifier == InitClassifier /\ [][NextClassifier]_vars

\* C34: for every source, the classifier returns feed for any URL whose path
\* starts with one of /login, /signin, /signup, /register, /auth, /oauth,
\* /sso, /checkpoint, /uas and for any URL that cannot be parsed, and it
\* never raises.
AuthAndUnparseableAreFeed ==
    pureCall.fn = "isOnFeedPage" =>
        LET prefixes == {<<"/", "login">>, <<"/", "signin">>, <<"/", "signup">>,
                         <<"/", "r", "egister">>, <<"/", "auth">>, <<"/", "oauth">>,
                         <<"/", "sso">>, <<"/", "checkpoint">>, <<"/", "uas">>}
        IN  /\ ~pureCall.threw
            /\ (\E prefix \in prefixes : StartsWith(pureCall.url.path, prefix)) => pureCall.yes
            /\ ~Parses(pureCall.url) => pureCall.yes

\* The classifier was asked about a path below an auth prefix that the
\* platform's own rules would call a detail page, and answered feed.
AuthPathOverridesPlatformRules ==
    /\ pureCall.fn = "isOnFeedPage"
    /\ Parses(pureCall.url)
    /\ StartsWith(pureCall.url.path, <<"/", "uas">>)
    /\ ~platformFeedPath(pureCall.url.path, pureCall.index)
    /\ pureCall.yes

\* ------------------------------------------------------------------------
\* Mode toggles (Spec)
\* ------------------------------------------------------------------------

ModeToggles == {"TOGGLE_SCROLL_SYNC", "TOGGLE_FOCUS_MODE", "TOGGLE_GRAYSCALE_MODE"}

\* Whether a flag value switches its mode on.
Truthy(v) == v = JBool(TRUE)

\* C25: each of the scroll-sync, focus-mode and grayscale toggles inverts
\* its own flag and leaves the other two flags, the order, the visibility
\* and the splits unchanged; the second of two toggles of the same mode in
\* a row returns the flag to its value before the first.
TogglesInvertOwnFlag ==
    [][/\ lastEvent'.type = "TOGGLE_SCROLL_SYNC" =>
            /\ scrollSyncEnabled' = ~scrollSyncEnabled
            /\ UNCHANGED <<focusModeEnabled, grayscaleModeEnabled>>
       /\ lastEvent'.type = "TOGGLE_FOCUS_MODE" =>
            /\ focusModeEnabled' = ~focusModeEnabled
            /\ UNCHANGED <<scrollSyncEnabled, grayscaleModeEnabled>>
       /\ lastEvent'.type = "TOGGLE_GRAYSCALE_MODE" =>
            /\ Truthy(grayscaleModeEnabled') = ~Truthy(grayscaleModeEnabled)
            /\ UNCHANGED <<scrollSyncEnabled, focusModeEnabled>>
       /\ lastEvent'.type \in ModeToggles =>
            UNCHANGED <<platformOrder, platformVisibility, currentSplits>>
       /\ (lastEvent'.type \in ModeToggles /\ lastEvent.type = lastEvent'.type) =>
            /\ lastEvent'.type = "TOGGLE_SCROLL_SYNC" => scrollSyncEnabled' = lastEvent.was
            /\ lastEvent'.type = "TOGGLE_FOCUS_MODE" => focusModeEnabled' = lastEvent.was
            /\ lastEvent'.type = "TOGGLE_GRAYSCALE_MODE" =>
                  grayscaleModeEnabled' = lastEvent.was]_vars

====
